---- MODULE Spec2Model ----
(***************************************************************************)
(* Model of the query execution engine of llm-api-hack: the serialized     *)
(* request queue (enqueue / processQueue) and the polling loop of          *)
(* queryPerplexity / queryGemini that streams deltas and detects the end   *)
(* of an answer.                                                           *)
(***************************************************************************)
EXTENDS Integers, Sequences, FiniteSets, TLC

\* ------------------------------------------------------------------------
\* Bounds
\* ------------------------------------------------------------------------
MaxJobs == 3

\* Longest answer text, in characters (after LongPrefix for Gemini)
MaxLen == 2

\* Number of HTTP requests in an execution of the whole server
MaxRequests == 2

\* Longest query, in characters
MaxQueryLen == 2

\* const MAX_TIMEOUT = 120000, scaled down to a few polls
MAX_TIMEOUT == 16000

\* while (Date.now() - start < 120000) of the first queryGemini of
\* gemini-server.js, whose start is taken after the settle delay; scaled
\* down to the same number of polls
GeminiLoopDeadline == 11000

\* Time one call of extractAnswer takes, in ms
ExtractMs == 1

\* Launches of the browser in an execution, the one of start() included
MaxLaunches == 2

\* const MAX_TIMEOUT = 300000 of gemini-server.js ("5 minutes max per
\* query"), on the scale of GeminiLoopDeadline
GeminiMaxTimeout == 27500

\* page.waitForSelector('pending-response', { timeout: 60000 }), on the
\* same scale
PendingResponseTimeout == 5500

\* The 65000 of { timeout: MAX_TIMEOUT - 65000 }, on the same scale
GenerationMargin == 5958

\* Selectors in the list of submitQuery
MaxSelectors == 2

\* Elements that one selector matches
MaxElements == 2

Jobs == 1..MaxJobs

Values == {"v1", "v2"}
Errors == {"e1", "e2"}

Pending == [kind |-> "pending", val |-> "-"]
Resolved(v) == [kind |-> "resolved", val |-> v]
Rejected(e) == [kind |-> "rejected", val |-> e]

\* The query functions a task may call (getQueryFn in the unified server).
QueryFns == {"queryPerplexity", "queryGemini"}

NoTask == [mode |-> "none", fn |-> "-", err |-> "-"]
AsyncTask(f) == [mode |-> "async", fn |-> f, err |-> "-"]
ThrowingTask(e) == [mode |-> "throws", fn |-> "-", err |-> e]

Outcomes == {Resolved(v) : v \in Values} \cup {Rejected(e) : e \in Errors}

\* ------------------------------------------------------------------------
\* State of the request queue
\* ------------------------------------------------------------------------
VARIABLES
    requestQueue,   \* const requestQueue = []: waiting jobs, head first
    processing,     \* let processing = false
    task,           \* task[j]: the function handed to enqueue for job j
    taskState,      \* "new" | "waiting" | "running" | "finished" | "done"
    taskResult,     \* what the task's own promise settled with
    promise,        \* the promise returned by enqueue(task)
    calls,          \* number of invocations of task[j]
    settles,        \* number of resolve/reject calls on the enqueue promise
    enqueued,       \* jobs in the order of their enqueue calls
    started,        \* jobs in the order their task was invoked
    settled         \* jobs in the order their enqueue promise was settled

queueVars == <<requestQueue, processing, task, taskState, taskResult,
               promise, calls, settles, enqueued, started, settled>>

\* ------------------------------------------------------------------------
\* State of one execution of queryPerplexity / queryGemini
\* ------------------------------------------------------------------------
VARIABLES
    variant,            \* which query function runs
    onChunk,            \* TRUE when a streaming callback was passed
    pc,                 \* "off" | "idle" | "polling" | "returned" | "settled"
    elapsed,            \* Date.now() - start, at the top of the loop
    lastText,           \* let lastText = ''
    stableCount,        \* let stableCount = 0
    lastChunkedLength,  \* let lastChunkedLength = 0
    prevLen,            \* the page's data-prev-len attribute
    deltas,             \* the strings passed to onChunk, in order
    result,             \* outcome of the promise of the query function
    closes,             \* calls of page.close() and context.close() so far
    waited,             \* ms between the return of submitQuery and start
    extraction,         \* the sample of the latest poll
    repeats,            \* latest run of polls equal to their predecessor
    monotone,           \* no sample was shorter than its predecessor
    unrepeated,         \* no sample had the text of its predecessor
    observed,           \* some sample had a non-empty text
    everAccepted,       \* some sample had a text the loop accepts
    lastAccepted,       \* the text of the latest sample the loop accepts
    acceptedRun         \* latest run of accepted samples equal to the
                        \* accepted sample before them

engineVars == <<variant, onChunk, pc, elapsed, lastText, stableCount,
                lastChunkedLength, prevLen, deltas, result, closes,
                waited>>

\* The samples seen by the loop, kept to state properties of sample sequences
ghostVars == <<extraction, repeats, monotone, unrepeated, observed,
               everAccepted, lastAccepted, acceptedRun>>

\* ------------------------------------------------------------------------
\* State of the HTTP layer of server.js (POST /v1/chat/completions)
\* ------------------------------------------------------------------------
VARIABLES
    owner,      \* the job whose task is executing the query function
    stream,     \* stream[j]: the request of job j asked for streaming
    written,    \* written[j]: what has been written to the response of job j
    gone        \* the jobs whose caller has disconnected

serverVars == <<owner, stream, written, gone>>

\* ------------------------------------------------------------------------
\* One call of extractAnswer: the query, the text found on the page, and
\* what the call returns
\* ------------------------------------------------------------------------
VARIABLES
    inputQuery,     \* the query passed to the page function
    observedText,   \* the text the selector strategies found
    extracted,      \* the answerText returned, once the call was made
    onlyEchoes      \* every text found so far began with the query

echoVars == <<inputQuery, observedText, extracted, onlyEchoes>>

\* ------------------------------------------------------------------------
\* One request of POST /v1/chat/completions with the contents of its response
\* ------------------------------------------------------------------------
VARIABLES
    wantsStream,    \* req.body.stream
    sent            \* what the handler has written to res, in order

handlerVars == <<wantsStream, sent>>

\* ------------------------------------------------------------------------
\* The shared browser and the pages of the executions
\* ------------------------------------------------------------------------
VARIABLES
    browser,        \* let browser = null: 0, or the number of the browser
    browserReady,   \* let browserReady = false
    connected,      \* the browsers that are running
    launchedBy,     \* launchedBy[b]: the job that launched browser b (0: start)
    pages,          \* pages[p]: the page number p that createPage returned
    exec,           \* exec[j]: where job j is in createPage / the query
                    \* function, and the const b, context and page it holds
    misused         \* a method of a page was called after page.close()

browserVars == <<browser, browserReady, connected, launchedBy, pages, exec,
                 misused>>

\* ------------------------------------------------------------------------
\* The requests that arrive at POST /v1/chat/completions
\* ------------------------------------------------------------------------
VARIABLES
    program,        \* the program that runs: "server.js", "unified", or
                    \* "cli", the command-line client
    arrival         \* the body of the latest request and the response its
                    \* handler gave before returning, if it gave one

routerVars == <<program, arrival>>

\* ------------------------------------------------------------------------
\* One call of submitQuery
\* ------------------------------------------------------------------------
VARIABLES
    submission      \* what the selectors find on the page, the selector and
                    \* element the call is at, the elements it has examined,
                    \* the submissions it has triggered and what it returned

submitVars == <<submission>>

\* The state outside the queue and the query function
extVars == <<handlerVars, browserVars, routerVars, submitVars>>

vars == <<queueVars, engineVars, ghostVars, serverVars, echoVars, extVars>>

SeqSet(q) == {q[i] : i \in 1..Len(q)}

\* ------------------------------------------------------------------------
\* processQueue
\* ------------------------------------------------------------------------

CanProcessIgnoringFlag(p, q) == Len(q) > 0

\* if (processing || requestQueue.length === 0) return;
CanProcess(p, q) == ~p /\ Len(q) > 0

Popped(q) == [job |-> q[Len(q)], rest |-> SubSeq(q, 1, Len(q) - 1)]

\* const { task, resolve, reject } = requestQueue.shift();
Shifted(q) == [job |-> Head(q), rest |-> Tail(q)]

FinallyProcessingStuck == TRUE

\* finally { processing = false; ... }
FinallyProcessing == FALSE

FinallyRestartNever(q) == FALSE

\* finally { ...; if (requestQueue.length > 0) processQueue(); }
FinallyRestart(q) == Len(q) > 0

SettleAlwaysResolve(outcome) == Resolved(outcome.val)

\* resolve(result) in the try block, reject(err) in the catch block
SettleWith(outcome) == outcome

ProcessingSetForgotten == FALSE

\* processing = true;
ProcessingSet == TRUE

Idle(p, q) == [thrown |-> <<>>, running |-> <<>>, queue |-> q, processing |-> p]

\* One call of processQueue() up to its first suspension.  A task that
\* throws synchronously is rejected in the catch block, and the finally
\* block calls processQueue again before the outer call returns.  The result
\* names the jobs rejected that way, the job left suspended at
\* `await task()` (at most one), and the new requestQueue and processing.
RECURSIVE ProcessQueue(_, _, _)
ProcessQueue(p, q, tk) ==
    IF ~CanProcess(p, q) THEN Idle(p, q)
    ELSE LET s == Shifted(q) IN
         IF tk[s.job].mode = "throws"
         THEN LET r == IF FinallyRestart(s.rest)
                       THEN ProcessQueue(FinallyProcessing, s.rest, tk)
                       ELSE Idle(FinallyProcessing, s.rest)
              IN  [r EXCEPT !.thrown = <<s.job>> \o r.thrown]
         ELSE [thrown |-> <<>>, running |-> <<s.job>>, queue |-> s.rest,
               processing |-> ProcessingSet]

\* The state after a processQueue run r, starting from the job tables
\* ts (taskState), tr (taskResult), pr (promise), sc (settles), st (settled).
ApplyRun(r, ts, tr, pr, sc, st) ==
    LET thrown == SeqSet(r.thrown)
        invoked == thrown \cup SeqSet(r.running)
    IN  /\ requestQueue' = r.queue
        /\ processing' = r.processing
        /\ started' = started \o r.thrown \o r.running
        /\ calls' = [j \in Jobs |-> IF j \in invoked THEN calls[j] + 1 ELSE calls[j]]
        /\ taskState' = [j \in Jobs |->
                           IF j \in thrown THEN "done"
                           ELSE IF j \in SeqSet(r.running) THEN "running"
                           ELSE ts[j]]
        /\ taskResult' = [j \in Jobs |->
                            IF j \in thrown THEN Rejected(task'[j].err) ELSE tr[j]]
        /\ promise' = [j \in Jobs |->
                         IF j \in thrown
                         THEN SettleWith(Rejected(task'[j].err)) ELSE pr[j]]
        /\ settles' = [j \in Jobs |-> IF j \in thrown THEN sc[j] + 1 ELSE sc[j]]
        /\ settled' = st \o r.thrown

\* ------------------------------------------------------------------------
\* Actions of the queue
\* ------------------------------------------------------------------------

QueueInit ==
    /\ requestQueue = <<>>
    /\ processing = FALSE
    /\ task = [j \in Jobs |-> NoTask]
    /\ taskState = [j \in Jobs |-> "new"]
    /\ taskResult = [j \in Jobs |-> Pending]
    /\ promise = [j \in Jobs |-> Pending]
    /\ calls = [j \in Jobs |-> 0]
    /\ settles = [j \in Jobs |-> 0]
    /\ enqueued = <<>>
    /\ started = <<>>
    /\ settled = <<>>

\* enqueue(task): requestQueue.push({task, resolve, reject}); processQueue();
\* Job j is the j-th call of enqueue.
EnqueueTask(j, t) ==
    /\ taskState[j] = "new"
    /\ j = Len(enqueued) + 1
    /\ task' = [task EXCEPT ![j] = t]
    /\ enqueued' = Append(enqueued, j)
    /\ ApplyRun(ProcessQueue(processing, Append(requestQueue, j), task'),
                [taskState EXCEPT ![j] = "waiting"],
                taskResult, promise, settles, settled)

\* enqueue of a task that returns a promise
Enqueue ==
    /\ \E j \in Jobs, f \in QueryFns : EnqueueTask(j, AsyncTask(f))
    /\ UNCHANGED <<engineVars, ghostVars, serverVars, echoVars, extVars>>

\* enqueue of a task that throws before returning a promise
EnqueueThrowing ==
    /\ \E j \in Jobs, e \in Errors : EnqueueTask(j, ThrowingTask(e))
    /\ UNCHANGED <<engineVars, ghostVars, serverVars, echoVars, extVars>>

\* The promise returned by task() settles (the task finishes its work).
TaskSettles(j, outcome) ==
    /\ taskState[j] = "running"
    /\ taskState' = [taskState EXCEPT ![j] = "finished"]
    /\ taskResult' = [taskResult EXCEPT ![j] = outcome]
    /\ UNCHANGED <<requestQueue, processing, task, promise, calls, settles,
                   enqueued, started, settled>>

TaskResolves ==
    /\ \E j \in Jobs, v \in Values : TaskSettles(j, Resolved(v))
    /\ UNCHANGED <<engineVars, ghostVars, serverVars, echoVars, extVars>>

TaskRejects ==
    /\ \E j \in Jobs, e \in Errors : TaskSettles(j, Rejected(e))
    /\ UNCHANGED <<engineVars, ghostVars, serverVars, echoVars, extVars>>

\* processQueue resumes after `await task()`: resolve(result) or
\* reject(err), then the finally block.
Resume(j) ==
    /\ taskState[j] = "finished"
    /\ UNCHANGED <<task, enqueued>>
    /\ LET r == IF FinallyRestart(requestQueue)
                THEN ProcessQueue(FinallyProcessing, requestQueue, task)
                ELSE Idle(FinallyProcessing, requestQueue)
       IN  ApplyRun(r,
                    [taskState EXCEPT ![j] = "done"],
                    taskResult,
                    [promise EXCEPT ![j] = SettleWith(taskResult[j])],
                    [settles EXCEPT ![j] = @ + 1],
                    Append(settled, j))

ResumeQueue ==
    /\ \E j \in Jobs : Resume(j)
    /\ UNCHANGED <<engineVars, ghostVars, serverVars, echoVars, extVars>>

QueueNext == Enqueue \/ EnqueueThrowing \/ TaskResolves \/ TaskRejects \/ ResumeQueue

\* ------------------------------------------------------------------------
\* Answer texts and samples
\* ------------------------------------------------------------------------

\* (!isLoading && stableCount >= 3)
LowStable == 3
\* stableCount >= 8 in queryPerplexity
HighStablePerplexity == 8
\* stableCount >= 10 in queryGemini
HighStableGemini == 10
\* doneThreshold = extraction.modelResponseExists ? 2 : 5
LowWithModelResponse == 2
LowWithoutModelResponse == 5
\* extraction.answerText.length > 10
MinGeminiLength == 10
\* await new Promise(r => setTimeout(r, 1000)) at the end of an iteration
PollIntervalMs == 1000
\* await new Promise(r => setTimeout(r, 5000)) between start and the loop
GraceMs == 5000

\* "perplexity": queryPerplexity of server.js and of the unified server;
\* "gemini1": queryGemini of gemini-server.js, first variant;
\* "gemini2": queryGemini of gemini-server.js, second variant, and of the
\*            unified server.
Variants == {"perplexity", "gemini1", "gemini2"}

\* Two renderings of an answer that differ at every position ("abab..." and
\* "baba..."); the page shows a prefix of one of them.
Rendering(first, n) ==
    [i \in 1..n |-> IF (i % 2 = 1) = first THEN "a" ELSE "b"]

Strings(n) == {Rendering(first, k) : first \in BOOLEAN, k \in 0..n}

\* A text of exactly MinGeminiLength characters
LongPrefix == [i \in 1..MinGeminiLength |-> "x"]

\* The texts extractAnswer may return for a variant: for Perplexity every
\* string up to MaxLen, for Gemini the empty text and LongPrefix followed
\* by such a string.
TextsOf(v) ==
    IF v = "perplexity" THEN Strings(MaxLen)
    ELSE {<<>>} \cup {LongPrefix \o s : s \in Strings(MaxLen)}

\* extraction.sources: citations only exist on the Perplexity page
SourcesOf(v) == IF v = "perplexity" THEN {"none", "cited"} ELSE {"none"}

\* extraction.modelResponseExists is only returned by the first Gemini variant
ModelResponseOf(v) == IF v = "gemini1" THEN BOOLEAN ELSE {FALSE}

NoExtraction ==
    [taken |-> FALSE, answerText |-> <<>>, isLoading |-> FALSE,
     modelResponseExists |-> FALSE, spinner |-> FALSE]

Answer(text, src) == Resolved([answer |-> text, sources |-> src])

RECURSIVE Concat(_)
Concat(ds) == IF ds = <<>> THEN <<>> ELSE Head(ds) \o Concat(Tail(ds))

\* ------------------------------------------------------------------------
\* The polling loop
\* ------------------------------------------------------------------------

\* if (extraction.answerText) for Perplexity,
\* if (extraction.answerText && extraction.answerText.length > 10) for Gemini
Accepts(v, text) ==
    /\ text # <<>>
    /\ v # "perplexity" => Len(text) > MinGeminiLength

LowThreshold(v, mre) ==
    IF v = "gemini1"
    THEN (IF mre THEN LowWithModelResponse ELSE LowWithoutModelResponse)
    ELSE LowStable

HighThreshold(v) ==
    IF v = "perplexity" THEN HighStablePerplexity ELSE HighStableGemini

IsDoneWithoutForcedRule(v, isLoading, mre, sc) ==
    ~isLoading /\ sc >= LowThreshold(v, mre)

IsDoneIgnoringBusy(v, isLoading, mre, sc) == sc >= LowThreshold(v, mre)

IsDoneOneLate(v, isLoading, mre, sc) ==
    \/ ~isLoading /\ sc > LowThreshold(v, mre)
    \/ sc >= HighThreshold(v)

\* if ((!extraction.isLoading && stableCount >= 3) || stableCount >= 8)
IsDone(v, isLoading, mre, sc) ==
    \/ ~isLoading /\ sc >= LowThreshold(v, mre)
    \/ sc >= HighThreshold(v)

ShouldChunkOnChange(cb, text, lcl) == cb /\ Len(text) # lcl

ShouldChunkNever(cb, text, lcl) == FALSE

\* if (onChunk && extraction.answerText.length > lastChunkedLength)
ShouldChunk(cb, text, lcl) == cb /\ Len(text) > lcl

NextStableCountNoReset(same, sc) == IF same THEN sc + 1 ELSE sc

\* if (extraction.answerText === lastText) { stableCount++; ... }
\* else { stableCount = 0; }
NextStableCount(same, sc) == IF same THEN sc + 1 ELSE 0

\* A chunk that repeats what was sent
NewContentWhole(text, lcl) == text

\* extraction.answerText.slice(lastChunkedLength)
NewContent(text, lcl) == SubSeq(text, lcl + 1, Len(text))

\* A text that counts as growing when it is as long as before
IsGrowingOrSame(text, pl) == Len(text) >= pl /\ pl > 0

\* isGrowing = answerText.length > prevLen && prevLen > 0
IsGrowing(text, pl) == Len(text) > pl /\ pl > 0

\* Date.now() - start when the loop is first tested: the first Gemini
\* variant takes `start` right before the loop, the others before the grace
\* interval.
InitialElapsed(v) == IF v = "gemini1" THEN 0 ELSE GraceMs

\* await new Promise(r => setTimeout(r, 800)) of the first queryGemini
SettleMs == 800

\* The least time between the return of submitQuery and start = Date.now():
\* none, except in the first queryGemini, which takes start after its
\* waits for the page and the settle delay.
StartDelayNone(v) == 0

StartDelay(v) == IF v = "gemini1" THEN SettleMs ELSE 0

\* The fixed delay between the return of submitQuery and the first call of
\* extractAnswer
GraceOf(v) == IF v = "gemini1" THEN SettleMs ELSE GraceMs

\* The bound of the while condition on Date.now() - start
LoopDeadline(v) == IF v = "gemini1" THEN GeminiLoopDeadline ELSE MAX_TIMEOUT

\* The while condition Date.now() - start < MAX_TIMEOUT is false
DeadlinePassedLate(v, e) == e >= LoopDeadline(v) + PollIntervalMs

DeadlinePassed(v, e) == e >= LoopDeadline(v)

\* After the loop: if (lastText) return { answer: lastText, sources: [] };
\* throw new Error('Timeout: no answer received from ...')
TimeoutOutcomeAlwaysError(lt) == Rejected("Timeout: no answer received")

TimeoutOutcomeAlwaysAnswer(lt) == Answer(lt, "none")

TimeoutOutcome(lt) ==
    IF lt # <<>> THEN Answer(lt, "none")
    ELSE Rejected("Timeout: no answer received")

\* No close call has been made on the page of the execution.
NoCloses == [page |-> 0, context |-> 0]

\* createPage returns a browser context with the page, except in the first
\* server of gemini-server.js, which opens the page in the default context
\* and returns context: null.
HasContext(v) == v # "gemini1"

\* finally { await page.close().catch(() => { });
\*           await context.close().catch(() => { }); }
\* The rejection of a failed close is caught: the outcome stays.
AfterCloseUncaught(outcome, failed) ==
    IF failed THEN Rejected("close failed") ELSE outcome

AfterClose(outcome, failed) == outcome

Closed(v, c) ==
    [page |-> c.page + 1,
     context |-> IF HasContext(v) THEN c.context + 1 ELSE c.context]

\* return { answer, sources } / throw: the loop is left
ExitLoopMissing == "polling"

ExitLoop == "returned"

\* The locals of a query function that has been called and has created
\* its page: nothing submitted yet.
EngineStarts(v, cb) ==
    /\ variant' = v
    /\ onChunk' = cb
    /\ pc' = "idle"
    /\ elapsed' = 0
    /\ lastText' = <<>>
    /\ stableCount' = 0
    /\ lastChunkedLength' = 0
    /\ prevLen' = 0
    /\ deltas' = <<>>
    /\ result' = Pending
    /\ closes' = NoCloses
    /\ waited' = 0

GhostInit ==
    /\ extraction = NoExtraction
    /\ repeats = 0
    /\ monotone = TRUE
    /\ unrepeated = TRUE
    /\ observed = FALSE
    /\ everAccepted = FALSE
    /\ lastAccepted = <<>>
    /\ acceptedRun = 0

\* One call of a query function, of any variant, with or without onChunk
EngineInit ==
    /\ variant \in Variants
    /\ onChunk \in BOOLEAN
    /\ pc = "idle"
    /\ elapsed = 0
    /\ lastText = <<>>
    /\ stableCount = 0
    /\ lastChunkedLength = 0
    /\ prevLen = 0
    /\ deltas = <<>>
    /\ result = Pending
    /\ closes = NoCloses
    /\ waited = 0
    /\ GhostInit

\* No query function has been called.
EngineOff ==
    /\ variant = "perplexity"
    /\ onChunk = FALSE
    /\ pc = "off"
    /\ elapsed = 0
    /\ lastText = <<>>
    /\ stableCount = 0
    /\ lastChunkedLength = 0
    /\ prevLen = 0
    /\ deltas = <<>>
    /\ result = Pending
    /\ closes = NoCloses
    /\ waited = 0
    /\ GhostInit

\* No response is looked at.
HandlerOff ==
    /\ wantsStream = FALSE
    /\ sent = <<>>

NotCalled == [at |-> "-", b |-> 0, sawNull |-> FALSE, context |-> "none",
              page |-> 0, out |-> Pending, fn |-> "-"]

\* No browser is looked at.
BrowserOff ==
    /\ browser = 0
    /\ browserReady = FALSE
    /\ connected = {}
    /\ launchedBy = <<>>
    /\ pages = <<>>
    /\ exec = [j \in Jobs |-> NotCalled]
    /\ misused = FALSE

\* JavaScript values of a request body
Undefined == [kind |-> "undefined", val |-> <<>>]
Str(s) == [kind |-> "string", val |-> s]
Arr(a) == [kind |-> "array", val |-> a]

NoResponse ==
    [type |-> "none", delta |-> {}, finish_reason |-> "null",
     status |-> 0, body |-> <<>>]

NoArrival ==
    [body |-> [messages |-> Undefined, model |-> Undefined],
     response |-> NoResponse]

\* No request is looked at.
RouterOff == program = "server.js" /\ arrival = NoArrival

NoSubmission ==
    [dom |-> <<>>, sel |-> 1, el |-> 1, examined |-> <<>>, submits |-> <<>>,
     ret |-> "pending"]

\* No call of submitQuery is looked at.
SubmitOff == submission = NoSubmission

ExtOff == HandlerOff /\ BrowserOff /\ RouterOff /\ SubmitOff

ServerOff ==
    /\ owner = 0
    /\ stream = [j \in Jobs |-> FALSE]
    /\ written = [j \in Jobs |-> <<>>]
    /\ gone = {}

\* The timeout of page.waitForFunction(model-response present or
\* pending-response gone)
GenerationTimeout == GeminiMaxTimeout - GenerationMargin

\* The time the first queryGemini of gemini-server.js may spend in its
\* two waits, each of which ends at once when the page shows what is
\* waited for and is given up at its timeout; the failure of a wait is
\* caught and the function goes on.  The other query functions have no
\* such waits.
WaitsOf(v) ==
    IF v = "gemini1"
    THEN {w1 + w2 : w1 \in {0, PendingResponseTimeout},
                    w2 \in {0, GenerationTimeout}}
    ELSE {0}

\* submitQuery returned true: w ms in the waits, start = Date.now(), the
\* three locals, the grace interval.
SubmitTrueAfter(w) ==
    /\ pc = "idle"
    /\ pc' = "polling"
    /\ elapsed' = InitialElapsed(variant)
    /\ lastText' = <<>>
    /\ stableCount' = 0
    /\ lastChunkedLength' = 0
    /\ waited' = w + StartDelay(variant)
    /\ UNCHANGED <<variant, onChunk, prevLen, deltas, result, closes>>

\* The same when the page shows at once what the waits wait for.
SubmitTrue == SubmitTrueAfter(0)

\* if (!submitted) throw new Error('Could not find input field on ... page')
SubmitFailureSwallowed == Answer(<<>>, "none")

SubmitFailure == Rejected("Could not find input field")

\* submitQuery returned false
SubmitFalse ==
    /\ pc = "idle"
    /\ pc' = ExitLoop
    /\ result' = SubmitFailure
    /\ UNCHANGED <<variant, onChunk, elapsed, lastText, stableCount,
                   lastChunkedLength, prevLen, deltas, closes, waited>>

\* One iteration of the while loop: extractAnswer, onChunk, the stability
\* test, the sleep.  text, spinner, mre and src are what the page shows.
PollWith(text, spinner, mre, src) ==
    LET isLoading == spinner \/ IsGrowing(text, prevLen)
        accepted == Accepts(variant, text)
        chunk == accepted /\ ShouldChunk(onChunk, text, lastChunkedLength)
        same == accepted /\ text = lastText
        sc == NextStableCount(same, stableCount)
        done == same /\ IsDone(variant, isLoading, mre, sc)
        \* else if (extraction.modelResponseExists && lastText)
        fallback == ~accepted /\ variant = "gemini1" /\ mre /\ lastText # <<>>
    IN  /\ pc = "polling"
        /\ ~DeadlinePassed(variant, elapsed)
        /\ prevLen' = Len(text)
        /\ deltas' = IF chunk
                     THEN Append(deltas, NewContent(text, lastChunkedLength))
                     ELSE deltas
        /\ lastChunkedLength' = IF chunk THEN Len(text) ELSE lastChunkedLength
        /\ stableCount' = IF accepted THEN sc ELSE stableCount
        /\ lastText' = IF accepted /\ ~done THEN text ELSE lastText
        /\ pc' = IF done \/ fallback THEN ExitLoop ELSE "polling"
        /\ result' = IF done THEN Answer(text, src)
                     ELSE IF fallback THEN Answer(lastText, "none")
                     ELSE result
        \* Date.now() - start at the next test of the loop condition
        /\ elapsed' = IF done \/ fallback THEN elapsed
                      ELSE elapsed + ExtractMs + PollIntervalMs
        /\ UNCHANGED <<variant, onChunk, closes, waited>>

\* The sample of the poll, recorded for the properties.
Observe(text, spinner, mre) ==
    /\ extraction' = [taken |-> TRUE, answerText |-> text,
                      isLoading |-> spinner \/ IsGrowing(text, prevLen),
                      modelResponseExists |-> mre, spinner |-> spinner]
    /\ repeats' = IF extraction.taken /\ text = extraction.answerText
                  THEN repeats + 1 ELSE 0
    /\ monotone' = (monotone /\ (extraction.taken =>
                                    Len(text) >= Len(extraction.answerText)))
    /\ unrepeated' = (unrepeated /\ ~(extraction.taken /\
                                         text = extraction.answerText))
    /\ observed' = (observed \/ text # <<>>)
    /\ everAccepted' = (everAccepted \/ Accepts(variant, text))
    /\ lastAccepted' = IF Accepts(variant, text) THEN text ELSE lastAccepted
    /\ acceptedRun' = IF ~Accepts(variant, text) THEN acceptedRun
                      ELSE IF text = lastAccepted THEN acceptedRun + 1
                      ELSE 0

\* A waitForAnswer that throws like the query functions of the servers
WaitTimeoutOutcomeThrows(lt) ==
    IF lt # <<>> THEN Answer(lt, "none")
    ELSE Rejected("Timeout: no answer received")

\* After the loop of waitForAnswer in the command-line client:
\* if (lastText) return { answer: lastText, sources: [] };
\* return { answer: '', sources: [] };
WaitTimeoutOutcome(lt) ==
    IF lt # <<>> THEN Answer(lt, "none") ELSE Answer(<<>>, "none")

\* The loop condition fails: return the partial answer, or throw
\* new Error('Timeout: no answer received ...').
LoopTimesOut ==
    /\ pc = "polling"
    /\ DeadlinePassed(variant, elapsed)
    /\ pc' = ExitLoop
    /\ result' = IF program = "cli" THEN WaitTimeoutOutcome(lastText)
                 ELSE TimeoutOutcome(lastText)
    /\ UNCHANGED <<variant, onChunk, elapsed, lastText, stableCount,
                   lastChunkedLength, prevLen, deltas, closes, waited>>

\* page.goto throws (navigation timeout, network error)
GotoThrows ==
    /\ pc = "idle"
    /\ pc' = ExitLoop
    /\ result' = Rejected("Navigation timeout")
    /\ UNCHANGED <<variant, onChunk, elapsed, lastText, stableCount,
                   lastChunkedLength, prevLen, deltas, closes, waited>>

\* await extractAnswer(page) throws inside the loop (page.evaluate fails):
\* nothing in the loop catches it.
ExtractThrows ==
    /\ pc = "polling"
    /\ ~DeadlinePassed(variant, elapsed)
    /\ pc' = ExitLoop
    /\ result' = Rejected("page.evaluate failed")
    /\ UNCHANGED <<variant, onChunk, elapsed, lastText, stableCount,
                   lastChunkedLength, prevLen, deltas, closes, waited>>

\* The finally block, after which the promise of the query function
\* settles; the close calls may fail.
Finally(pageFails, contextFails) ==
    /\ pc = "returned"
    /\ pc' = "settled"
    /\ closes' = Closed(variant, closes)
    /\ result' = AfterClose(AfterClose(result, pageFails),
                            HasContext(variant) /\ contextFails)
    /\ UNCHANGED <<variant, onChunk, elapsed, lastText, stableCount,
                   lastChunkedLength, prevLen, deltas, waited>>

\* The actions of one execution on its own
NavigationFails ==
    GotoThrows /\ UNCHANGED <<queueVars, ghostVars, serverVars, echoVars, extVars>>

ExtractFails ==
    ExtractThrows /\ UNCHANGED <<queueVars, ghostVars, serverVars, echoVars, extVars>>

PageCloses ==
    /\ \E pageFails \in BOOLEAN, contextFails \in BOOLEAN :
           Finally(pageFails, contextFails)
    /\ UNCHANGED <<queueVars, ghostVars, serverVars, echoVars, extVars>>

SubmitSucceeds ==
    SubmitTrue /\ UNCHANGED <<queueVars, ghostVars, serverVars, echoVars, extVars>>

SubmitFails ==
    SubmitFalse /\ UNCHANGED <<queueVars, ghostVars, serverVars, echoVars, extVars>>

\* submitQuery returned true and the waits took any of their durations.
SubmitWaits ==
    /\ \E w \in WaitsOf(variant) : SubmitTrueAfter(w)
    /\ UNCHANGED <<queueVars, ghostVars, serverVars, echoVars, extVars>>

Poll ==
    /\ \E text \in TextsOf(variant), spinner \in BOOLEAN,
          mre \in ModelResponseOf(variant), src \in SourcesOf(variant) :
           PollWith(text, spinner, mre, src) /\ Observe(text, spinner, mre)
    /\ UNCHANGED <<queueVars, serverVars, echoVars, extVars>>

Deadline ==
    LoopTimesOut /\ UNCHANGED <<queueVars, ghostVars, serverVars, echoVars, extVars>>

PollNext ==
    \/ NavigationFails
    \/ SubmitSucceeds
    \/ SubmitFails
    \/ Poll
    \/ ExtractFails
    \/ Deadline
    \/ PageCloses

\* ------------------------------------------------------------------------
\* extractAnswer: the echo guard of the first server of gemini-server.js
\* ------------------------------------------------------------------------

\* The characters of queries and page texts: letters in both cases, a
\* letter that is in no query, the space
Chars == {"q", "Q", "z", " "}

\* Texts of at most n of these characters
TextsUpTo(n) == UNION {[1..k -> Chars] : k \in 0..n}

\* The framings Gemini puts before the echoed query
Framings ==
    {<<>>,
     <<"Y", "o", "u", " ", "s", "a", "i", "d", " ">>,
     <<"y", "o", "u", " ", " ", "s", "a", "i", "d", " ">>}

\* toLowerCase()
Lower(c) ==
    CASE c = "Q" -> "q" [] c = "Y" -> "y" [] c = "P" -> "p" [] c = "L" -> "l"
      [] c = "X" -> "x" [] c = "G" -> "g" [] OTHER -> c

\* The characters that \s and trim() take for white space
WhiteSpace == {" ", "\n"}

\* replace(/\s+/g, ' ')
Collapse(s) ==
    LET marked == [i \in 1..Len(s) |->
                     [c |-> IF s[i] \in WhiteSpace THEN " " ELSE s[i],
                      drop |-> /\ i > 1
                               /\ s[i] \in WhiteSpace
                               /\ s[i - 1] \in WhiteSpace]]
        kept == SelectSeq(marked, LAMBDA m : ~m.drop)
    IN  [i \in 1..Len(kept) |-> kept[i].c]

RECURSIVE TrimStart(_)
TrimStart(s) ==
    IF s # <<>> /\ s[1] \in WhiteSpace THEN TrimStart(Tail(s)) ELSE s

RECURSIVE TrimEnd(_)
TrimEnd(s) ==
    IF s # <<>> /\ s[Len(s)] \in WhiteSpace
    THEN TrimEnd(SubSeq(s, 1, Len(s) - 1)) ELSE s

\* trim()
Trim(s) == TrimEnd(TrimStart(s))

\* const norm = s => s.replace(/\s+/g, ' ').trim().toLowerCase()
Norm(s) ==
    LET t == Trim(Collapse(s)) IN [i \in 1..Len(t) |-> Lower(t[i])]

\* normQuery.slice(0, 120) and normQuery.slice(0, 100)
QuerySliceLen == 120
YouSaidSliceLen == 100

Slice(s, n) == SubSeq(s, 1, IF n < Len(s) THEN n ELSE Len(s))

StartsWith(s, prefix) ==
    Len(prefix) <= Len(s) /\ SubSeq(s, 1, Len(prefix)) = prefix

YouSaid == <<"y", "o", "u", " ", "s", "a", "i", "d">>

\* normAnswer.replace(/^you said\s*/i, '')
StripYouSaid(s) ==
    IF StartsWith(s, YouSaid)
    THEN TrimStart(SubSeq(s, Len(YouSaid) + 1, Len(s)))
    ELSE s

\* The echo guard: text that is the user's query echoed back is discarded.
EchoGuardExactOnly(query, text) ==
    IF query # <<>> /\ text # <<>> /\ Norm(text) = Norm(query)
    THEN <<>> ELSE text

\* A guard that compares with the whole query
EchoGuardNoSlice(query, text) ==
    LET normAnswer == Norm(text)
        normQuery == Norm(query)
    IN  IF /\ query # <<>> /\ text # <<>>
           /\ \/ normAnswer = normQuery
              \/ StartsWith(normAnswer, normQuery)
              \/ StartsWith(normAnswer, YouSaid \o <<" ">> \o normQuery)
              \/ StartsWith(StripYouSaid(normAnswer), normQuery)
        THEN <<>>
        ELSE text

EchoGuard(query, text) ==
    LET normAnswer == Norm(text)
        normQuery == Norm(query)
    IN  IF /\ query # <<>> /\ text # <<>>
           /\ \/ normAnswer = normQuery
              \/ StartsWith(normAnswer, Slice(normQuery, QuerySliceLen))
              \/ StartsWith(normAnswer,
                            YouSaid \o <<" ">> \o Slice(normQuery, YouSaidSliceLen))
              \/ StartsWith(StripYouSaid(normAnswer),
                            Slice(normQuery, QuerySliceLen))
        THEN <<>>
        ELSE text

\* The answerText of extractAnswer, given the text its selector strategies
\* found: only the first server of gemini-server.js is passed the query and
\* has the guard.
AnswerText(v, query, text) ==
    IF v = "gemini1" THEN EchoGuard(query, text) ELSE text

\* The handlers answer 400 'No content found in messages' when the
\* flattened query is blank: extractAnswer sees the other queries.
Queries == {q \in TextsUpTo(MaxQueryLen) : Trim(q) # <<>>}

\* What the selector strategies can find, trimmed as cleanText trims
PageTexts == {Trim(f \o t) : f \in Framings, t \in TextsUpTo(MaxLen)}

NotExtracted == [done |-> FALSE, answerText |-> <<>>]

\* No extractAnswer call is looked at.
EchoOff ==
    /\ inputQuery = <<>>
    /\ observedText = <<>>
    /\ extracted = NotExtracted
    /\ onlyEchoes = TRUE

EchoInit ==
    /\ inputQuery \in Queries
    /\ observedText \in PageTexts
    /\ extracted = NotExtracted
    /\ onlyEchoes = TRUE

ExtractAnswer ==
    /\ ~extracted.done
    /\ inputQuery # <<>>
    /\ extracted' = [done |-> TRUE,
                     answerText |-> AnswerText(variant, inputQuery, observedText)]
    /\ UNCHANGED <<inputQuery, observedText, onlyEchoes>>
    /\ UNCHANGED <<queueVars, engineVars, ghostVars, serverVars, extVars>>

\* A text that begins with the first QuerySliceLen characters of the
\* query, both normalized, after an optional 'you said'
EchoShaped(query, text) ==
    LET head == Slice(Norm(query), QuerySliceLen)
        normText == Norm(text)
    IN  /\ text # <<>>
        /\ \/ StartsWith(normText, head)
           \/ /\ StartsWith(normText, YouSaid)
              /\ StartsWith(TrimStart(SubSeq(normText, Len(YouSaid) + 1,
                                             Len(normText))), head)

\* A query of more than QuerySliceLen characters
LongQuery == [i \in 1..(QuerySliceLen + 1) |->
                 IF i <= QuerySliceLen THEN "q" ELSE "z"]

LoopQueries == {<<"Q", "z">>, LongQuery}

\* What the selector strategies find on the page of a query: nothing, the
\* query, the beginning of the query with another continuation, bare or
\* framed, and texts of the answer
SamplesFor(query) ==
    {<<>>, query, Slice(query, QuerySliceLen) \o <<"x">>,
     <<"Y", "o", "u", " ", "s", "a", "i", "d", " ">>
         \o Slice(query, QuerySliceLen) \o <<" ", "x">>,
     LongPrefix \o <<"a">>}

\* One iteration of the loop of the first queryGemini of gemini-server.js:
\* `await extractAnswer(page, query)` with its echo guard, then the rest.
EchoPoll ==
    /\ \E page \in SamplesFor(inputQuery), spinner \in BOOLEAN,
          mre \in ModelResponseOf(variant) :
          LET text == AnswerText(variant, inputQuery, page)
          IN  /\ PollWith(text, spinner, mre, "none")
              /\ Observe(text, spinner, mre)
              /\ observedText' = page
              /\ extracted' = [done |-> TRUE, answerText |-> text]
              /\ onlyEchoes' = (onlyEchoes /\ EchoShaped(inputQuery, page))
    /\ UNCHANGED <<queueVars, serverVars, extVars, inputQuery>>

EchoLoopInit ==
    /\ QueueInit /\ ServerOff /\ ExtOff
    /\ EngineInit /\ variant = "gemini1" /\ onChunk = TRUE
    /\ inputQuery \in LoopQueries
    /\ observedText = <<>>
    /\ extracted = NotExtracted
    /\ onlyEchoes = TRUE

EchoLoopNext ==
    \/ SubmitSucceeds
    \/ EchoPoll
    \/ ExtractFails
    \/ Deadline
    \/ PageCloses

\* ------------------------------------------------------------------------
\* POST /v1/chat/completions of server.js: the handler, the queue and the
\* query function of the running job together
\* ------------------------------------------------------------------------

\* What the page shows in the executions of the whole server
ServerTexts == {<<>>, <<"a">>, <<"a", "b">>}

\* In these executions the page shows no loading indicator: the busy signal
\* is isGrowing alone.
ServerSpinner == {FALSE}

\* The task of a job that processQueue has just started calls
\* queryPerplexity with the onChunk callback of its request.
TaskInvoked(j, cb) ==
    IF taskState'[j] = "running"
    THEN EngineStarts("perplexity", cb) /\ owner' = j
    ELSE UNCHANGED <<engineVars, owner>>

\* The handler, up to its await: the role chunk of a streaming response,
\* then enqueue(() => queryPerplexity(query, onChunk)).
Request(j, s) ==
    /\ EnqueueTask(j, AsyncTask("queryPerplexity"))
    /\ stream' = [stream EXCEPT ![j] = s]
    /\ written' = [written EXCEPT ![j] = IF s THEN <<"role">> ELSE <<>>]
    /\ TaskInvoked(j, s)
    /\ UNCHANGED <<ghostVars, echoVars, extVars, gone>>

Requests == \E j \in 1..MaxRequests, s \in BOOLEAN : Request(j, s)

\* The callback given to queryPerplexity: one SSE chunk per call, unless
\* the response has ended.
OnChunkWrites(w) ==
    IF w # <<>> /\ w[Len(w)] = "end" THEN w ELSE Append(w, "content")

QueryActive == owner \in Jobs /\ taskState[owner] = "running"

QuerySubmits ==
    /\ QueryActive
    /\ SubmitTrue \/ SubmitFalse
    /\ UNCHANGED <<queueVars, ghostVars, serverVars, echoVars, extVars>>

QueryPolls ==
    /\ QueryActive
    /\ \E text \in ServerTexts, spinner \in ServerSpinner :
           PollWith(text, spinner, FALSE, "none")
    /\ written' = IF deltas' # deltas
                  THEN [written EXCEPT ![owner] = OnChunkWrites(@)]
                  ELSE written
    /\ UNCHANGED <<queueVars, ghostVars, echoVars, extVars, owner, stream, gone>>

QueryTimesOut ==
    /\ QueryActive
    /\ LoopTimesOut
    /\ UNCHANGED <<queueVars, ghostVars, serverVars, echoVars, extVars>>

\* The page and the locals of a query function that has returned are gone.
EngineStops ==
    /\ pc' = "off"
    /\ elapsed' = 0
    /\ lastText' = <<>>
    /\ stableCount' = 0
    /\ lastChunkedLength' = 0
    /\ prevLen' = 0
    /\ deltas' = <<>>
    /\ result' = Pending
    /\ closes' = NoCloses
    /\ waited' = 0
    /\ UNCHANGED <<variant, onChunk>>

\* queryPerplexity has returned or thrown: after finally { page.close() }
\* the promise of the task settles.
QuerySettles ==
    /\ QueryActive
    /\ result.kind # "pending"
    /\ TaskSettles(owner, result)
    /\ EngineStops
    /\ UNCHANGED <<ghostVars, serverVars, echoVars, extVars>>

\* The continuation of processQueue for the settled task; the next job's
\* task calls queryPerplexity.
QueueResumes ==
    \E j \in Jobs :
        /\ Resume(j)
        /\ IF \E k \in Jobs : taskState[k] # "running" /\ taskState'[k] = "running"
           THEN LET k == CHOOSE k \in Jobs :
                            taskState[k] # "running" /\ taskState'[k] = "running"
                IN  EngineStarts("perplexity", stream[k]) /\ owner' = k
           ELSE UNCHANGED <<engineVars, owner>>
        /\ UNCHANGED <<ghostVars, echoVars, extVars, stream, written, gone>>

\* A handler that forgets the '[DONE]' marker
ResponseOfWithoutDone(j) ==
    IF stream[j]
    THEN IF promise[j].kind = "resolved"
         THEN written[j] \o <<"stop", "end">>
         ELSE written[j] \o <<"error", "end">>
    ELSE IF promise[j].kind = "resolved" THEN <<"json">> ELSE <<"json 500">>

\* The handler after its await
ResponseOf(j) ==
    IF stream[j]
    THEN IF promise[j].kind = "resolved"
         THEN written[j] \o <<"stop", "[DONE]", "end">>
         ELSE written[j] \o <<"error", "[DONE]", "end">>
    ELSE IF promise[j].kind = "resolved" THEN <<"json">> ELSE <<"json 500">>

Responded(j) ==
    written[j] # <<>> /\ written[j][Len(written[j])] \in {"end", "json", "json 500"}

Respond(j) ==
    /\ promise[j].kind # "pending"
    /\ ~Responded(j)
    /\ written' = [written EXCEPT ![j] = ResponseOf(j)]
    /\ UNCHANGED <<queueVars, engineVars, ghostVars, echoVars, extVars, owner, stream, gone>>

Responds == \E j \in Jobs : Respond(j)

\* The handler registers no listener for the close of the request or of
\* the response: a caller that goes away leaves the queue as it is.
AfterDisconnectDropped(q, j) == SelectSeq(q, LAMBDA k : k # j)

AfterDisconnect(q, j) == q

\* The caller of job j disconnects before its response has ended.
Disconnect(j) ==
    /\ taskState[j] \in {"waiting", "running", "finished"}
    /\ j \notin gone
    /\ gone' = gone \cup {j}
    /\ requestQueue' = AfterDisconnect(requestQueue, j)
    /\ UNCHANGED <<processing, task, taskState, taskResult, promise, calls,
                   settles, enqueued, started, settled>>
    /\ UNCHANGED <<engineVars, ghostVars, echoVars, extVars, owner, stream, written>>

Disconnects == \E j \in Jobs : Disconnect(j)

ServerNext ==
    \/ Requests
    \/ QuerySubmits
    \/ QueryPolls
    \/ QueryTimesOut
    \/ QuerySettles
    \/ QueueResumes
    \/ Responds
    \/ Disconnects

\* ------------------------------------------------------------------------
\* POST /v1/chat/completions: the contents of the response to one request
\* ------------------------------------------------------------------------

\* What res.write, res.end and res.json are called with.  A delta is the
\* set of the <<key, value>> pairs of the delta object of a chunk.
Data(delta, finishReason) ==
    [type |-> "data", delta |-> delta, finish_reason |-> finishReason,
     status |-> 200, body |-> <<>>]

DoneMarker ==
    [type |-> "[DONE]", delta |-> {}, finish_reason |-> "null",
     status |-> 200, body |-> <<>>]

End ==
    [type |-> "end", delta |-> {}, finish_reason |-> "null",
     status |-> 200, body |-> <<>>]

Json(status, body) ==
    [type |-> "json", delta |-> {}, finish_reason |-> "null",
     status |-> status, body |-> body]

\* choices: [{ delta: { role: 'assistant', content: '' }, finish_reason: null }]
RoleChunk == Data({<<"role", <<"assistant">>>>, <<"content", <<>>>>}, "null")

\* buildStreamChunk(content, model, finishReason = null):
\* delta: finishReason ? {} : { content }, finish_reason: finishReason
BuildStreamChunk(content, finishReason) ==
    Data(IF finishReason # "null" THEN {} ELSE {<<"content", content>>},
         finishReason)

SourcesHeader == "---**Sources:**"

SourcesTrailerAlways(src) ==
    <<SourcesHeader>> \o (IF src = "cited" THEN <<"1. [title](url)">> ELSE <<>>)

\* if (sources.length > 0) { fullContent += '\n\n---\n**Sources:**\n';
\*   sources.forEach(...) }
SourcesTrailer(src) ==
    IF src = "cited" THEN <<SourcesHeader, "1. [title](url)">> ELSE <<>>

\* buildCompletionResponse(content, model, sources = []): message.content
BuildCompletionResponse(content, src) == Json(200, content \o SourcesTrailer(src))

\* `\n\n[Error: ${err.message}]`
ErrorText(msg) == <<"[Error: ", msg, "]">>

\* res.writableEnded
WritableEnded(w) == w # <<>> /\ w[Len(w)].type = "end"

\* The response is complete.
Answered(w) == w # <<>> /\ w[Len(w)].type \in {"end", "json"}

\* The onChunk callback of the handler
OnChunkSends(w, chunk) ==
    IF WritableEnded(w) THEN w
    ELSE Append(w, BuildStreamChunk(chunk, "null"))

\* The handler after `await enqueue(...)` has settled with outcome
HandlerWrites(w, streaming, outcome) ==
    IF streaming
    THEN IF WritableEnded(w) THEN w
         ELSE IF outcome.kind = "resolved"
         THEN w \o <<BuildStreamChunk(<<>>, "stop"), DoneMarker, End>>
         ELSE w \o <<BuildStreamChunk(ErrorText(outcome.val), "stop"),
                     DoneMarker, End>>
    ELSE IF outcome.kind = "resolved"
         THEN <<BuildCompletionResponse(outcome.val.answer, outcome.val.sources)>>
         ELSE <<Json(500, <<outcome.val>>)>>

\* The handler of a request at its await: the role chunk of a streaming
\* response has been written and the task has called queryPerplexity with
\* the callback of the request.
HandlerInit ==
    /\ QueueInit /\ ServerOff /\ EchoOff
    /\ EngineInit /\ variant = "perplexity"
    /\ wantsStream \in BOOLEAN
    /\ onChunk = wantsStream
    /\ sent = IF wantsStream THEN <<RoleChunk>> ELSE <<>>
    /\ BrowserOff /\ RouterOff /\ SubmitOff

\* One iteration of the loop of queryPerplexity; onChunk writes to res.
HandlerPoll ==
    /\ \E text \in TextsOf(variant), spinner \in BOOLEAN,
          src \in SourcesOf(variant) :
           PollWith(text, spinner, FALSE, src) /\ Observe(text, spinner, FALSE)
    /\ sent' = IF deltas' # deltas
               THEN OnChunkSends(sent, deltas'[Len(deltas')])
               ELSE sent
    /\ UNCHANGED <<queueVars, serverVars, echoVars, wantsStream, browserVars,
                   routerVars, submitVars>>

\* The promise of queryPerplexity has settled; enqueue settles its own
\* promise with the same outcome and the handler goes on after its await.
HandlerResponds ==
    /\ pc = "settled"
    /\ ~Answered(sent)
    /\ sent' = HandlerWrites(sent, wantsStream, SettleWith(result))
    /\ UNCHANGED <<queueVars, engineVars, ghostVars, serverVars, echoVars,
                   wantsStream, browserVars, routerVars, submitVars>>

HandlerNext ==
    \/ NavigationFails
    \/ SubmitSucceeds
    \/ SubmitFails
    \/ HandlerPoll
    \/ ExtractFails
    \/ Deadline
    \/ PageCloses
    \/ HandlerResponds

\* ------------------------------------------------------------------------
\* initBrowser, ensureBrowser, createPage and the finally block of the
\* query functions, for the jobs of the queue
\* ------------------------------------------------------------------------

NeedsLaunchNever(b, ready) == FALSE

\* if (!browser || !browserReady) await initBrowser();
NeedsLaunch(b, ready) == b = 0 \/ ~ready

FreshPageCached(n) == 1

\* const page = await context.newPage(): a page that did not exist, the
\* next after the n pages created so far
FreshPage(n) == n + 1

\* What createPage awaits after `const b = await ensureBrowser()`:
\* b.createBrowserContext(), or b.newPage() in the first server of
\* gemini-server.js
AfterEnsure(v) == IF HasContext(v) THEN "context" ELSE "page"

QueryFnOf(v) == IF v = "perplexity" THEN "queryPerplexity" ELSE "queryGemini"

\* task() calls the query function, which calls createPage, which calls
\* ensureBrowser: all in one turn, up to the await of puppeteer.launch or
\* of the first call on the browser.
Called(b, ready, v) ==
    IF NeedsLaunch(b, ready)
    THEN [NotCalled EXCEPT !.at = "launch", !.sawNull = (b = 0 \/ ~ready),
                           !.fn = QueryFnOf(v)]
    ELSE [NotCalled EXCEPT !.at = AfterEnsure(v), !.b = b,
                           !.sawNull = (b = 0 \/ ~ready),
                           !.fn = QueryFnOf(v)]

\* The jobs whose task processQueue invokes in this step
Begun == {k \in Jobs : taskState[k] # "running" /\ taskState'[k] = "running"}

CallsQuery ==
    exec' = [k \in Jobs |->
               IF k \in Begun THEN Called(browser, browserReady, variant)
               ELSE exec[k]]

\* A request arrives: enqueue(() => queryFn(query))
BrowserRequest ==
    /\ \E j \in Jobs : EnqueueTask(j, AsyncTask(QueryFnOf(variant)))
    /\ CallsQuery
    /\ UNCHANGED <<browser, browserReady, connected, launchedBy, pages, misused>>
    /\ UNCHANGED <<engineVars, ghostVars, serverVars, echoVars, handlerVars,
                   routerVars, submitVars>>

\* The continuation of processQueue; the task of the next job is invoked.
BrowserResume ==
    /\ \E j \in Jobs : Resume(j)
    /\ CallsQuery
    /\ UNCHANGED <<browser, browserReady, connected, launchedBy, pages, misused>>
    /\ UNCHANGED <<engineVars, ghostVars, serverVars, echoVars, handlerVars,
                   routerVars, submitVars>>

\* createPage throws: the query function rejects before its try block, so
\* its finally block does not run.
CreatePageThrows(j) ==
    /\ TaskSettles(j, Rejected("e2"))
    /\ exec' = [exec EXCEPT ![j].at = "end"]

\* browser = await puppeteer.launch(...); browser.on('disconnected', ...);
\* browserReady = true; then ensureBrowser returns browser.
LaunchResolves(j) ==
    /\ exec[j].at = "launch"
    /\ Len(launchedBy) < MaxLaunches
    /\ LET id == Len(launchedBy) + 1
       IN  /\ browser' = id
           /\ browserReady' = TRUE
           /\ connected' = connected \cup {id}
           /\ launchedBy' = Append(launchedBy, j)
           /\ exec' = [exec EXCEPT ![j].at = AfterEnsure(variant), ![j].b = id]
    /\ UNCHANGED <<pages, misused, queueVars>>

LaunchRejects(j) ==
    /\ exec[j].at = "launch"
    /\ CreatePageThrows(j)
    /\ UNCHANGED <<browser, browserReady, connected, launchedBy, pages, misused>>

\* const context = await b.createBrowserContext();
ContextResolves(j) ==
    /\ exec[j].at = "context"
    /\ exec[j].b \in connected
    /\ exec' = [exec EXCEPT ![j].context = "open", ![j].at = "page"]
    /\ UNCHANGED <<browser, browserReady, connected, launchedBy, pages, misused,
                   queueVars>>

ContextRejects(j) ==
    /\ exec[j].at = "context"
    /\ CreatePageThrows(j)
    /\ UNCHANGED <<browser, browserReady, connected, launchedBy, pages, misused>>

\* const page = await context.newPage();
NewPageResolves(j) ==
    /\ exec[j].at = "page"
    /\ exec[j].b \in connected
    /\ LET p == FreshPage(Len(pages))
       IN  /\ pages' = IF p > Len(pages)
                       THEN Append(pages, [state |-> "open", b |-> exec[j].b,
                                           users |-> {}])
                       ELSE pages
           /\ exec' = [exec EXCEPT ![j].page = p, ![j].at = "setup"]
    /\ UNCHANGED <<browser, browserReady, connected, launchedBy, misused,
                   queueVars>>

NewPageRejects(j) ==
    /\ exec[j].at = "page"
    /\ CreatePageThrows(j)
    /\ UNCHANGED <<browser, browserReady, connected, launchedBy, pages, misused>>

\* A method of the page of job j is called.
UsePage(j) ==
    /\ pages' = [pages EXCEPT ![exec[j].page].users = @ \cup {j}]
    /\ misused' = (misused \/ pages[exec[j].page].state = "closed")

\* await page.evaluateOnNewDocument(...); await page.setUserAgent(...);
\* return { page, context }; the query function enters its try block.
SetupResolves(j) ==
    /\ exec[j].at = "setup"
    /\ exec[j].b \in connected
    /\ UsePage(j)
    /\ exec' = [exec EXCEPT ![j].at = "try"]
    /\ UNCHANGED <<browser, browserReady, connected, launchedBy, queueVars>>

SetupRejects(j) ==
    /\ exec[j].at = "setup"
    /\ UsePage(j)
    /\ CreatePageThrows(j)
    /\ UNCHANGED <<browser, browserReady, connected, launchedBy>>

\* The try block (goto, submitQuery, the loop) returns or throws; it
\* returns an answer only from a page of a running browser.
TryEnds(j, outcome) ==
    /\ exec[j].at = "try"
    /\ outcome.kind = "resolved" => exec[j].b \in connected
    /\ UsePage(j)
    /\ exec' = [exec EXCEPT ![j].at = "finally", ![j].out = outcome]
    /\ UNCHANGED <<browser, browserReady, connected, launchedBy, queueVars>>

\* finally { await page.close().catch(() => { });
\*           await context.close().catch(() => { }); }
\* and the promise of the query function settles.
FinallyCloses(j) ==
    /\ exec[j].at = "finally"
    /\ pages' = [pages EXCEPT ![exec[j].page].state =
                     IF @ = "open" THEN "closed" ELSE @]
    /\ exec' = [exec EXCEPT ![j].at = "end",
                            ![j].context = IF @ = "open" THEN "closed" ELSE @]
    /\ TaskSettles(j, exec[j].out)
    /\ UNCHANGED <<browser, browserReady, connected, launchedBy, misused>>

\* browser.on('disconnected', () => { browserReady = false; browser = null; })
\* The contexts and pages of the browser are gone with it.
BrowserDisconnects(id) ==
    /\ id \in connected
    /\ connected' = connected \ {id}
    /\ browserReady' = FALSE
    /\ browser' = 0
    /\ pages' = [p \in DOMAIN pages |->
                   IF pages[p].b = id /\ pages[p].state = "open"
                   THEN [pages[p] EXCEPT !.state = "gone"] ELSE pages[p]]
    /\ exec' = [j \in Jobs |->
                  IF exec[j].b = id /\ exec[j].context = "open"
                  THEN [exec[j] EXCEPT !.context = "gone"] ELSE exec[j]]
    /\ UNCHANGED <<launchedBy, misused, queueVars>>

Others == <<engineVars, ghostVars, serverVars, echoVars, handlerVars,
            routerVars, submitVars>>

Launches ==
    /\ \E j \in Jobs : LaunchResolves(j) \/ LaunchRejects(j)
    /\ UNCHANGED Others

CreatesContext ==
    /\ \E j \in Jobs : ContextResolves(j) \/ ContextRejects(j)
    /\ UNCHANGED Others

CreatesPage ==
    /\ \E j \in Jobs : NewPageResolves(j) \/ NewPageRejects(j)
    /\ UNCHANGED Others

SetsUpPage ==
    /\ \E j \in Jobs : SetupResolves(j) \/ SetupRejects(j)
    /\ UNCHANGED Others

RunsQuery ==
    /\ \E j \in Jobs, outcome \in {Resolved("v1"), Rejected("e1")} :
           TryEnds(j, outcome)
    /\ UNCHANGED Others

ClosesPage ==
    /\ \E j \in Jobs : FinallyCloses(j)
    /\ UNCHANGED Others

Disconnected ==
    /\ \E id \in connected : BrowserDisconnects(id)
    /\ UNCHANGED Others

\* start(): await initBrowser() before app.listen: the browser runs when
\* the first request arrives.
BrowserInit ==
    /\ QueueInit /\ ServerOff /\ EchoOff /\ HandlerOff /\ RouterOff
    /\ SubmitOff
    /\ variant \in {"perplexity", "gemini1"}
    /\ onChunk = FALSE
    /\ pc = "off"
    /\ elapsed = 0
    /\ lastText = <<>>
    /\ stableCount = 0
    /\ lastChunkedLength = 0
    /\ prevLen = 0
    /\ deltas = <<>>
    /\ result = Pending
    /\ closes = NoCloses
    /\ waited = 0
    /\ GhostInit
    /\ browser = 1
    /\ browserReady = TRUE
    /\ connected = {1}
    /\ launchedBy = <<0>>
    /\ pages = <<>>
    /\ exec = [j \in Jobs |-> NotCalled]
    /\ misused = FALSE

BrowserNext ==
    \/ BrowserRequest
    \/ BrowserResume
    \/ Launches
    \/ CreatesContext
    \/ CreatesPage
    \/ SetsUpPage
    \/ RunsQuery
    \/ ClosesPage
    \/ Disconnected

\* ------------------------------------------------------------------------
\* POST /v1/chat/completions up to enqueue: validation and model routing
\* ------------------------------------------------------------------------

\* A value in a condition: undefined and '' are falsy, arrays are truthy.
Truthy(x) == x.kind = "array" \/ (x.kind = "string" /\ x.val # <<>>)

\* x || d
OrElse(x, d) == IF Truthy(x) THEN x ELSE d

\* s.includes(w)
Includes(s, w) ==
    \E i \in 0..(Len(s) - Len(w)) : SubSeq(s, i + 1, i + Len(w)) = w

ToLowerCase(s) == [i \in 1..Len(s) |-> Lower(s[i])]

\* const DEFAULT_MODEL = 'perplexity'
DEFAULT_MODEL == Str(<<"p", "e", "r", "p", "l", "e", "x", "i", "t", "y">>)

Pplx == <<"p", "p", "l", "x">>
Gemini == <<"g", "e", "m", "i", "n", "i">>

\* A router that looks for 'gemini' first
GetQueryFnGeminiFirst(modelName) ==
    LET model == Trim(ToLowerCase(OrElse(modelName, DEFAULT_MODEL).val))
    IN  IF Includes(model, Gemini) THEN "queryGemini"
        ELSE IF Includes(model, DEFAULT_MODEL.val) \/ model = Pplx
        THEN "queryPerplexity"
        ELSE "null"

\* function getQueryFn(modelName)
GetQueryFn(modelName) ==
    LET model == Trim(ToLowerCase(OrElse(modelName, DEFAULT_MODEL).val))
    IN  IF Includes(model, DEFAULT_MODEL.val) \/ model = Pplx
        THEN "queryPerplexity"
        ELSE IF Includes(model, Gemini) THEN "queryGemini"
        ELSE "null"

\* `${m.content}`
TemplateText(c) == IF c.kind = "undefined" THEN <<"undefined">> ELSE c.val

\* The callback of messages.map
Rendered(m) ==
    IF m.role = "system"
    THEN Str(<<"[System: ">> \o TemplateText(m.content) \o <<"]">>)
    ELSE IF m.role = "user" THEN m.content
    ELSE IF m.role = "assistant"
    THEN Str(<<"[Previous answer: ">> \o TemplateText(m.content) \o <<"]">>)
    ELSE m.content

\* Array.prototype.join('\n\n'): an undefined element gives ''
RECURSIVE Join(_)
Join(items) ==
    IF items = <<>> THEN <<>>
    ELSE IF Len(items) = 1 THEN items[1].val
    ELSE items[1].val \o <<"\n", "\n">> \o Join(Tail(items))

\* const query = messages.map(...).join('\n\n')
FlattenQuery(msgs) == Join([i \in 1..Len(msgs) |-> Rendered(msgs[i])])

\* A check that takes white space for content
QueryIsEmptyUntrimmed(query) == query = <<>>

\* !query.trim()
QueryIsEmpty(query) == Trim(query) = <<>>

\* res.status(400).json({ error: { ..., code } }); return
BadRequest(code) == [response |-> Json(400, <<code>>), fn |-> "null"]

\* The handler goes on to enqueue(() => queryFn(query, ...)).
Accepted(fn) == [response |-> NoResponse, fn |-> fn]

\* The handler, from `const { messages, model, stream } = req.body` to the
\* first of its returns with 400, or to its enqueue.  server.js has one
\* backend and no check of the model.
Validate(prog, body) ==
    LET messages == body.messages
        queryFn == IF prog = "unified"
                   THEN GetQueryFn(OrElse(body.model, DEFAULT_MODEL))
                   ELSE "queryPerplexity"
    IN  IF ~Truthy(messages) \/ messages.kind # "array" \/ Len(messages.val) = 0
        THEN BadRequest("invalid_messages")
        ELSE IF queryFn = "null" THEN BadRequest("model_not_found")
        ELSE IF QueryIsEmpty(FlattenQuery(messages.val))
        THEN BadRequest("empty_content")
        ELSE Accepted(queryFn)

\* The backend of the unified server that a query function is
VariantOf(fn) == IF fn = "queryPerplexity" THEN "perplexity" ELSE "gemini2"

\* The request bodies that arrive
Contents == {Undefined, Str(<<" ">>), Str(<<"a">>)}

Messages == [role : {"system", "user"}, content : Contents]

UserSays(c) == [role |-> "user", content |-> c]

MessageLists ==
    {Undefined, Str(<<"a">>), Arr(<<>>)}
        \cup {Arr(<<m>>) : m \in Messages}
        \cup {Arr(<<UserSays(Str(<<" ">>)), UserSays(c)>>) : c \in Contents}

ModelNames ==
    {Undefined, Str(<<>>), Str(<<" ">>),
     Str(Pplx), Str(<<" ", "P", "P", "L", "X", " ">>), Str(Pplx \o <<"2">>),
     DEFAULT_MODEL, Str(Gemini), Str(<<"G">> \o Tail(Gemini) \o <<"-", "2">>),
     Str(Pplx \o <<"-">> \o Gemini),
     Str(Gemini \o <<"-">> \o DEFAULT_MODEL.val),
     Str(<<"g", "p", "t">>)}

UserAsks == Arr(<<UserSays(Str(<<"a">>))>>)

Bodies ==
    {[messages |-> m, model |-> Undefined] : m \in MessageLists}
        \cup {[messages |-> UserAsks, model |-> n] : n \in ModelNames}
        \cup {[messages |-> m, model |-> Str(<<"g", "p", "t">>)] :
                  m \in {Arr(<<>>), Arr(<<UserSays(Str(<<" ">>))>>)}}

\* The tasks that processQueue invokes in this step call the query
\* function that their request was routed to.
RouterCallsQuery ==
    exec' = [k \in Jobs |->
               IF k \in Begun
               THEN Called(browser, browserReady, VariantOf(task'[k].fn))
               ELSE exec[k]]

\* A request arrives: the handler answers 400, or calls enqueue.
RouterRequest ==
    /\ \E body \in Bodies :
          LET v == Validate(program, body)
          IN  /\ arrival' = [body |-> body, response |-> v.response]
              /\ IF v.fn = "null"
                 THEN UNCHANGED <<queueVars, exec>>
                 ELSE /\ Len(enqueued) < MaxRequests
                      /\ EnqueueTask(Len(enqueued) + 1, AsyncTask(v.fn))
                      /\ RouterCallsQuery
    /\ UNCHANGED <<browser, browserReady, connected, launchedBy, pages, misused>>
    /\ UNCHANGED <<engineVars, ghostVars, serverVars, echoVars, handlerVars,
                   program, submitVars>>

\* The continuation of processQueue; the task of the next job is invoked.
RouterResume ==
    /\ \E j \in Jobs : Resume(j)
    /\ RouterCallsQuery
    /\ UNCHANGED <<browser, browserReady, connected, launchedBy, pages, misused>>
    /\ UNCHANGED <<engineVars, ghostVars, serverVars, echoVars, handlerVars,
                   routerVars, submitVars>>

RouterInit ==
    /\ QueueInit /\ EngineOff /\ ServerOff /\ EchoOff /\ HandlerOff
    /\ program \in {"server.js", "unified"}
    /\ arrival = NoArrival
    /\ SubmitOff
    /\ browser = 1
    /\ browserReady = TRUE
    /\ connected = {1}
    /\ launchedBy = <<0>>
    /\ pages = <<>>
    /\ exec = [j \in Jobs |-> NotCalled]
    /\ misused = FALSE

RouterNext ==
    \/ RouterRequest
    \/ RouterResume
    \/ CreatesContext
    \/ CreatesPage
    \/ SetsUpPage
    \/ RunsQuery
    \/ ClosesPage

\* ------------------------------------------------------------------------
\* submitQuery(page, query): the loop over the selectors
\* ------------------------------------------------------------------------

\* What happens with an element: isVisible is false; the element is
\* visible and click, typing and Enter (or the send button) complete; or
\* one of the awaited calls on it throws.
Behaviours == {"hidden", "ok", "throws"}

\* What page.$$(selector) gives: it throws, or the elements it matches
Matches ==
    {[fails |-> TRUE, found |-> <<>>]}
        \cup {[fails |-> FALSE, found |-> f] :
                  f \in UNION {[1..n -> Behaviours] : n \in 0..MaxElements}}

Doms == [1..MaxSelectors -> Matches]

At(sel, el) == [sel |-> sel, el |-> el]

\* A catch block that lets the exception out of submitQuery
CaughtRethrown(s) == [s EXCEPT !.ret = "thrown"]

\* catch { continue; }: on to the next selector
Caught(s) == [s EXCEPT !.sel = @ + 1, !.el = 1]

\* The call from one await to the next: page.$$(selector), or one element
\* of the inner loop up to `continue`, `return true` or the catch block;
\* `return false` after the outer loop.
Handle(s) ==
    IF s.sel > MaxSelectors THEN [s EXCEPT !.ret = "false"]
    ELSE LET m == s.dom[s.sel] IN
         IF m.fails THEN Caught(s)
         ELSE IF s.el > Len(m.found) THEN [s EXCEPT !.sel = @ + 1, !.el = 1]
         ELSE LET seen == [s EXCEPT !.examined = Append(@, At(s.sel, s.el))]
              IN  CASE m.found[s.el] = "hidden" -> [seen EXCEPT !.el = @ + 1]
                    [] m.found[s.el] = "throws" -> Caught(seen)
                    [] m.found[s.el] = "ok" ->
                          [seen EXCEPT !.submits = Append(@, At(s.sel, s.el)),
                                       !.ret = "true"]

SubmitQueryStep ==
    /\ submission.ret = "pending"
    /\ submission' = Handle(submission)
    /\ UNCHANGED <<queueVars, engineVars, ghostVars, serverVars, echoVars,
                   handlerVars, browserVars, routerVars>>

SubmitQueryInit ==
    /\ QueueInit /\ EngineOff /\ ServerOff /\ EchoOff
    /\ HandlerOff /\ BrowserOff /\ RouterOff
    /\ \E d \in Doms : submission = [NoSubmission EXCEPT !.dom = d]

SubmitQueryNext == SubmitQueryStep

\* ------------------------------------------------------------------------
\* Specifications
\* ------------------------------------------------------------------------

Init == QueueInit /\ EngineOff /\ ServerOff /\ EchoOff /\ ExtOff

\* The queue with arbitrary tasks
QueueSpec == Init /\ [][QueueNext]_vars

\* Every task that was started settles, and every settled task's
\* continuation is run by the event loop.
QueueFairSpec ==
    /\ QueueSpec
    /\ \A j \in Jobs :
          WF_vars((\E o \in Outcomes : TaskSettles(j, o)) /\ UNCHANGED <<engineVars, ghostVars, serverVars, echoVars, extVars>>)
    /\ \A j \in Jobs : WF_vars(Resume(j) /\ UNCHANGED <<engineVars, ghostVars, serverVars, echoVars, extVars>>)

PollInit == QueueInit /\ EngineInit /\ ServerOff /\ EchoOff /\ ExtOff

\* One execution of a query function, from submit to its outcome
PollSpec == PollInit /\ [][PollNext]_vars

\* The server of server.js: requests, the queue, one query at a time
ServerSpec == Init /\ [][ServerNext]_vars

\* One execution of the first queryGemini of gemini-server.js without
\* onChunk, with its waits between the submit and the loop
WaitInit == PollInit /\ variant = "gemini1" /\ onChunk = FALSE

WaitNext ==
    \/ NavigationFails
    \/ SubmitWaits
    \/ SubmitFails
    \/ Poll
    \/ ExtractFails
    \/ Deadline
    \/ PageCloses

WaitSpec == WaitInit /\ [][WaitNext]_vars

\* The jobs of the queue with the browser, the contexts and the pages
BrowserSpec == BrowserInit /\ [][BrowserNext]_vars

\* The requests of a server from their arrival, with the queue and the
\* pages of their jobs
RouterSpec == RouterInit /\ [][RouterNext]_vars

\* waitForAnswer(page, timeout) of the command-line client, called after
\* submitQuery returned true: the loop of queryPerplexity without onChunk
\* and with its own ending
CliInit ==
    /\ QueueInit /\ ServerOff /\ EchoOff /\ HandlerOff /\ BrowserOff
    /\ program = "cli" /\ arrival = NoArrival /\ SubmitOff
    /\ EngineInit /\ variant = "perplexity" /\ onChunk = FALSE

CliNext ==
    \/ SubmitSucceeds
    \/ Poll
    \/ ExtractFails
    \/ Deadline

CliSpec == CliInit /\ [][CliNext]_vars

\* One streaming execution of the first queryGemini of gemini-server.js
\* with the echo guard of its extractAnswer
EchoLoopSpec == EchoLoopInit /\ [][EchoLoopNext]_vars

\* One call of submitQuery on any page
SubmitQuerySpec == SubmitQueryInit /\ [][SubmitQueryNext]_vars

\* One request of POST /v1/chat/completions, from its await to its response
HandlerSpec == HandlerInit /\ [][HandlerNext]_vars

\* One call of extractAnswer in an execution of any variant
ExtractInit ==
    /\ QueueInit /\ ServerOff /\ EchoInit /\ ExtOff
    /\ EngineInit /\ onChunk = FALSE

ExtractNext == ExtractAnswer

ExtractSpec == ExtractInit /\ [][ExtractNext]_vars

\* ------------------------------------------------------------------------
\* Properties of the queue
\* ------------------------------------------------------------------------

IsPrefix(s, t) == Len(s) <= Len(t) /\ SubSeq(t, 1, Len(s)) = s

Running == {j \in Jobs : taskState[j] = "running"}
InFlight == {j \in Jobs : taskState[j] \in {"running", "finished"}}

\* C1: at every instant at most one enqueued task has been started and has
\* not yet settled, whatever query functions the tasks call (a Perplexity
\* query and a Gemini query of the unified server never run together).
C1_AtMostOneRunning == Cardinality(Running) <= 1

\* A Perplexity query runs while a Gemini query waits in requestQueue.
C1_Witness ==
    \E j, k \in Jobs :
        /\ taskState[j] = "running" /\ task[j].fn = "queryPerplexity"
        /\ taskState[k] = "waiting" /\ task[k].fn = "queryGemini"

\* C2: tasks are started in the order of their enqueue calls and settle in
\* that same order; no later-enqueued task starts before an earlier one.
C2_FifoStartAndSettle == IsPrefix(started, enqueued) /\ IsPrefix(settled, started)

\* Three jobs were enqueued while the first was running; two have settled
\* and the third has been started.
C2_Witness ==
    /\ Len(enqueued) >= 3
    /\ Len(settled) >= 2 /\ Len(started) >= 3
    /\ \A j \in 1..3 : task[j].mode = "async"

\* C3: when a task rejects or throws synchronously, only that job's enqueue
\* promise rejects, with that error; promises that are already settled keep
\* their outcome and every promise that settles in the step settles with
\* its own task's outcome; processing is reset, and the next queued job, if
\* any, is started.
C3_FailureIsolated ==
    [][\A j \in Jobs :
          (promise[j] = Pending /\ promise'[j].kind = "rejected") =>
              /\ promise'[j] = taskResult'[j]
              /\ \A k \in Jobs \ {j} :
                    /\ promise[k] # Pending => promise'[k] = promise[k]
                    /\ promise'[k] # promise[k] => promise'[k] = taskResult'[k]
              /\ processing' = (\E k \in Jobs : taskState'[k] = "running")
              /\ requestQueue' # <<>> => \E k \in Jobs : taskState'[k] = "running"
      ]_vars

\* A job was rejected, an earlier job stays resolved, and the job enqueued
\* after the failed one is running.
C3_Witness ==
    \E i, j, k \in Jobs :
        /\ promise[i].kind = "resolved"
        /\ promise[j].kind = "rejected"
        /\ taskState[k] = "running"
        /\ settled = <<i, j>>

\* C4: every enqueued task is invoked exactly once and its enqueue promise
\* is settled exactly once, with the outcome of the task: a waiting job sits
\* once in requestQueue and has not been invoked, a started job has been
\* invoked once, a settled job has been resolved or rejected once with what
\* its task resolved or rejected with.
C4_ExactlyOnce ==
    \A j \in Jobs :
        /\ calls[j] <= 1 /\ settles[j] <= 1
        /\ taskState[j] = "waiting" <=>
              Cardinality({i \in 1..Len(requestQueue) : requestQueue[i] = j}) = 1
        /\ taskState[j] \in {"new", "waiting"} => calls[j] = 0 /\ settles[j] = 0
        /\ taskState[j] \in {"running", "finished"} =>
              calls[j] = 1 /\ settles[j] = 0 /\ promise[j] = Pending
        /\ taskState[j] = "done" =>
              /\ calls[j] = 1 /\ settles[j] = 1
              /\ promise[j] # Pending /\ promise[j] = taskResult[j]

\* One job resolved with its value and another rejected with its error.
C4_Witness ==
    \E j, k \in Jobs :
        /\ taskState[j] = "done" /\ promise[j].kind = "resolved"
        /\ taskState[k] = "done" /\ promise[k].kind = "rejected"
        /\ task[k].mode = "async"

\* C5: if every started task eventually settles, every enqueued job is
\* eventually started and its enqueue promise eventually settles, and a job
\* never waits in requestQueue while no job is running.
C5_EveryJobSettles ==
    /\ \A j \in Jobs :
          (taskState[j] # "new") ~> (calls[j] = 1 /\ promise[j] # Pending)
    /\ [](requestQueue # <<>> => InFlight # {})

\* Two jobs wait behind a running one after an earlier job has settled.
C5_Witness ==
    /\ Len(requestQueue) >= 1
    /\ Running # {}
    /\ Len(settled) >= 1

\* GET /health: queueLength: requestQueue.length, processing
Health == [queueLength |-> Len(requestQueue), processing |-> processing]

Waiting == {j \in Jobs : taskState[j] = "waiting"}

\* C30: between event-loop turns, processing = false implies that
\* requestQueue is empty, processing is true exactly while one task is in
\* flight (started and its continuation in processQueue not yet run), and
\* requestQueue never contains the job in flight; the queueLength reported
\* by /health is the number of waiting jobs, the running one not counted.
C30_QueueLengthCountsWaiting ==
    /\ ~processing => requestQueue = <<>>
    /\ processing <=> Cardinality(InFlight) = 1
    /\ Cardinality(InFlight) <= 1
    /\ \A j \in InFlight : j \notin SeqSet(requestQueue)
    /\ SeqSet(requestQueue) = Waiting
    /\ Health.queueLength = Cardinality(Waiting)
    /\ Health.processing = (InFlight # {})

\* One job runs after an earlier one has settled, and /health reports the
\* one job that waits behind it.
C30_Witness ==
    /\ Health = [queueLength |-> 1, processing |-> TRUE]
    /\ Cardinality(Running) = 1
    /\ Len(settled) = 1
    /\ Cardinality(Waiting) = 1

\* ------------------------------------------------------------------------
\* Properties of the polling loop
\* ------------------------------------------------------------------------

\* The query function has left its try block.
Exited == pc \in {"returned", "settled"}

ReturnedWith(text) ==
    /\ Exited
    /\ result.kind = "resolved"
    /\ result.val.answer = text

\* C6 as claimed: whenever the sample lengths never decreased and the text
\* has repeated unchanged for highThreshold consecutive polls, the loop has
\* returned successfully with that text.
C6_Original ==
    (extraction.taken /\ monotone /\ repeats >= HighThreshold(variant))
        => ReturnedWith(extraction.answerText)

\* C6: whenever the sample lengths never decreased and a text the loop
\* accepts (non-empty; longer than 10 characters for Gemini) has repeated
\* unchanged for highThreshold consecutive polls (8 for Perplexity, 10 for
\* Gemini), the loop has returned successfully with that text, whatever
\* the busy signal was.
C6_ForcedStable ==
    (/\ extraction.taken /\ monotone
     /\ Accepts(variant, extraction.answerText)
     /\ repeats >= HighThreshold(variant))
        => ReturnedWith(extraction.answerText)

\* A text that grew and then repeated highThreshold times with the busy
\* signal on at the last poll has been returned.
C6_Witness ==
    /\ monotone /\ repeats = HighThreshold(variant)
    /\ extraction.isLoading
    /\ ReturnedWith(extraction.answerText)
    /\ onChunk /\ Len(deltas) >= 2

\* C7 as claimed: at a poll with busy false where the text has repeated at
\* least lowThreshold (3) and fewer than highThreshold times, the loop has
\* returned successfully with that text.
C7_Original ==
    (/\ extraction.taken /\ ~extraction.isLoading
     /\ repeats >= LowStable /\ repeats < HighThreshold(variant))
        => ReturnedWith(extraction.answerText)

\* C7: at the first poll with busy false at which a text the loop accepts
\* has repeated at least lowThreshold times, the loop returns successfully
\* with that text, not at any later poll; lowThreshold is 3, except in the
\* first gemini-server variant, where it is 2 when the page has a
\* model-response element and 5 otherwise.
C7_EarlyStable ==
    (/\ extraction.taken /\ ~extraction.isLoading
     /\ Accepts(variant, extraction.answerText)
     /\ repeats >= LowThreshold(variant, extraction.modelResponseExists))
        => ReturnedWith(extraction.answerText)

\* The loop returned at the third repeat of a text, with busy false.
C7_Witness ==
    /\ ReturnedWith(extraction.answerText)
    /\ ~extraction.isLoading
    /\ repeats = LowStable
    /\ stableCount = LowStable
    /\ variant # "gemini1"

\* C8: in a streaming execution that returned an answer, the concatenation
\* of the deltas passed to onChunk equals the answer.
C8_GaplessStream ==
    (onChunk /\ pc = "returned" /\ result.kind = "resolved")
        => Concat(deltas) = result.val.answer

\* C9: lastChunkedLength never decreases, and every onChunk call delivers
\* the characters of the current sample from the previous lastChunkedLength
\* to its end, so each delta starts where the previous one ended.
C9_DeltaOffsets ==
    [][/\ lastChunkedLength' >= lastChunkedLength
       /\ deltas' # deltas =>
             /\ lastChunkedLength' = Len(extraction'.answerText)
             /\ lastChunkedLength' > lastChunkedLength
             /\ deltas' = Append(deltas,
                                 SubSeq(extraction'.answerText,
                                        lastChunkedLength + 1,
                                        lastChunkedLength'))
             /\ Len(Concat(deltas')) = lastChunkedLength'
      ]_vars

\* Two deltas were emitted, and a later sample was shorter than what had
\* been emitted.
C9_Witness ==
    /\ Len(deltas) >= 2
    /\ extraction.taken
    /\ Len(extraction.answerText) < lastChunkedLength

\* The loop was left because its condition on the elapsed time failed.
ExitedByDeadline ==
    /\ Exited
    /\ extraction.taken
    /\ elapsed >= LoopDeadline(variant)

\* The query function returned an answer from inside the loop.
ReturnedBeforeDeadline ==
    /\ Exited
    /\ result.kind = "resolved"
    /\ elapsed < LoopDeadline(variant)

\* The latest sample is non-empty, equals the previously accepted text and
\* is returned under the early-stable or the forced-stable rule.
StableReturn ==
    /\ extraction.answerText # <<>>
    /\ extraction.answerText = lastText
    /\ result.val.answer = extraction.answerText
    /\ \/ /\ ~extraction.isLoading
          /\ stableCount >= LowThreshold(variant, extraction.modelResponseExists)
       \/ stableCount >= HighThreshold(variant)

\* The latest sample is not accepted, the page has a model-response element
\* and the text accepted earlier is returned.
FallbackReturn ==
    /\ variant = "gemini1"
    /\ ~Accepts(variant, extraction.answerText)
    /\ extraction.modelResponseExists
    /\ lastText # <<>>
    /\ result = Answer(lastText, "none")

\* C24 as claimed: a query returns successfully before the deadline only
\* under the early-stable or the forced-stable rule.
C24_Original == ReturnedBeforeDeadline => StableReturn

\* C24: a query returns successfully before the deadline only at a poll
\* whose sample is accepted, equals the previously accepted text and has
\* stableCount >= lowThreshold with busy false or stableCount >=
\* highThreshold, or, in the first server of gemini-server.js, at a poll
\* whose sample is not accepted while the page has a model-response element
\* and a text was accepted before: then that text is returned.
C24_OnlyStableReturns ==
    ReturnedBeforeDeadline =>
        \/ StableReturn /\ Accepts(variant, extraction.answerText)
        \/ FallbackReturn

\* The first server of gemini-server.js returned the text it had accepted
\* once, at a poll that found no text.
C24_Witness ==
    /\ ReturnedBeforeDeadline
    /\ FallbackReturn
    /\ extraction.answerText = <<>>
    /\ stableCount = 0

\* C25 as claimed: after every poll lastText is the text of the sample
\* and stableCount is the number of polls that repeated their predecessor.
C25_Original ==
    (extraction.taken /\ pc = "polling") =>
        /\ lastText = extraction.answerText
        /\ stableCount = repeats

\* C25: on every poll whose sample the loop accepts (non-empty; for Gemini
\* longer than 10 characters), a text that differs from lastText resets
\* stableCount to 0 and becomes lastText; samples that are not accepted
\* change neither, so stableCount is the number of accepted samples, not
\* counting the first, in the latest run of accepted samples with the text
\* of lastText.
C25_StabilityCount ==
    /\ lastText = lastAccepted
    /\ stableCount = acceptedRun
    /\ (extraction.taken /\ Accepts(variant, extraction.answerText)) =>
           lastText = extraction.answerText
    /\ lastText # <<>> => Accepts(variant, lastText)

\* A text was accepted twice with a sample that is not accepted in
\* between: stableCount counts the second across the gap.
C25_Witness ==
    /\ pc = "polling"
    /\ stableCount = 2 /\ repeats = 0
    /\ extraction.answerText = lastText

\* C26 as claimed: after every poll of a streaming execution the whole
\* sample has been emitted.
C26_Original ==
    (onChunk /\ extraction.taken) =>
        Len(extraction.answerText) <= lastChunkedLength

\* C26: on every poll of a streaming execution whose sample the loop
\* accepts and is longer than lastChunkedLength, the suffix from
\* lastChunkedLength is emitted in that poll, whether or not the poll ends
\* the loop; deltas are emitted on no other path: none without onChunk,
\* none before a sample was accepted, none empty, and their total length
\* is lastChunkedLength.
C26_DeltaOnGrowth ==
    /\ (onChunk /\ extraction.taken /\ Accepts(variant, extraction.answerText))
           => Len(extraction.answerText) <= lastChunkedLength
    /\ ~onChunk => deltas = <<>>
    /\ deltas # <<>> => everAccepted
    /\ \A i \in 1..Len(deltas) : deltas[i] # <<>>
    /\ Len(Concat(deltas)) = lastChunkedLength

\* A streaming Gemini execution emitted a second delta for the growth of
\* its latest sample.
C26_Witness ==
    /\ onChunk /\ variant = "gemini2"
    /\ Len(deltas) = 2
    /\ extraction.taken
    /\ Len(extraction.answerText) = lastChunkedLength
    /\ deltas[2] = SubSeq(extraction.answerText, Len(deltas[1]) + 1,
                          Len(extraction.answerText))

C12_Original ==
    (ExitedByDeadline /\ observed) => result.kind = "resolved"

\* C12: when the loop is left by deadline and a text the loop accepts
\* (non-empty; for Gemini longer than 10 characters) was observed at some
\* poll, the query resolves with the last accepted text as the answer and
\* without citations.
C12_PartialOnTimeout ==
    (ExitedByDeadline /\ everAccepted) =>
        /\ result.kind = "resolved"
        /\ result.val.sources = "none"
        /\ result.val.answer = lastText /\ lastText # <<>>
        /\ Accepts(variant, extraction.answerText) =>
              result.val.answer = extraction.answerText

\* A Gemini execution timed out after an accepted text was followed by
\* samples the loop does not accept.
C12_Witness ==
    /\ ExitedByDeadline /\ everAccepted
    /\ variant = "gemini2"
    /\ ~Accepts(variant, extraction.answerText)
    /\ result.kind = "resolved"

\* C13: when the deadline is reached and no non-empty text was ever
\* observed, the query rejects with the timeout error and no delta was
\* emitted; a query never resolves with an empty answer.
C13_NoAnswerError ==
    /\ (ExitedByDeadline /\ ~observed) =>
           /\ result = Rejected("Timeout: no answer received")
           /\ deltas = <<>>
    /\ result.kind = "resolved" => result.val.answer # <<>>

\* A streaming execution saw only empty samples until its deadline.
C13_Witness ==
    /\ ExitedByDeadline /\ ~observed
    /\ onChunk
    /\ result.kind = "rejected"

\* C14: an exception thrown by extractAnswer during a poll never rejects
\* the query promise.
C14_ExtractErrorAbsorbed ==
    ~(result.kind = "rejected" /\ result.val = "page.evaluate failed")

\* C15: on every exit path after createPage (stable completion, partial
\* timeout, no-answer error, submission failure, navigation error,
\* exception in a poll) the page, and its browser context where there is
\* one, is closed exactly once before the promise settles, and not before
\* the exit; a failing close does not change the outcome.
C15_ClosedOnEveryExit ==
    [][/\ pc' \in {"idle", "polling", "returned"} => closes' = NoCloses
       /\ pc' = "settled" =>
             /\ closes'.page = 1
             /\ closes'.context = (IF HasContext(variant) THEN 1 ELSE 0)
             /\ result'.kind # "pending"
             /\ pc = "returned" => result' = result
      ]_vars

\* The page and the context were closed after an exception in a poll.
C15_Witness ==
    /\ pc = "settled"
    /\ closes = [page |-> 1, context |-> 1]
    /\ result.kind = "rejected" /\ result.val = "page.evaluate failed"

C19_GraceBeforeFirstPoll ==
    [][extraction' # extraction =>
          /\ pc = "polling"
          /\ waited + elapsed >= GraceOf(variant)
      ]_vars

\* The first sample of an execution of the first server of
\* gemini-server.js was taken 800 ms after the submit.
C19_Witness ==
    /\ variant = "gemini1"
    /\ extraction.taken
    /\ pc = "polling"
    /\ waited = GraceOf(variant)
    /\ elapsed = ExtractMs + PollIntervalMs

\* C28: in the first server of gemini-server.js, the time from a
\* successful submit to the outcome of queryGemini never exceeds
\* MAX_TIMEOUT, whatever the page shows.
C28_WithinMaxTimeout ==
    (variant = "gemini1" /\ pc # "idle") =>
        waited + elapsed <= GeminiMaxTimeout

\* ------------------------------------------------------------------------
\* Properties of extractAnswer
\* ------------------------------------------------------------------------

\* The observed text is the query, or 'you said ' followed by the query,
\* up to case and whitespace.
IsEcho(query, text) ==
    \/ Norm(text) \in {query, Norm(query)}
    \/ Norm(text) \in {YouSaid \o <<" ">> \o query,
                       YouSaid \o <<" ">> \o Norm(query)}

\* C17: in the first server of gemini-server.js, extractAnswer returns an
\* empty answerText whenever the observed text, lower-cased and with its
\* whitespace collapsed, equals the query or 'you said ' followed by the
\* query.
C17_EchoDiscarded ==
    (extracted.done /\ variant = "gemini1" /\ IsEcho(inputQuery, observedText))
        => extracted.answerText = <<>>

\* 'You said ' followed by the query in another case was discarded.
C17_Witness ==
    /\ extracted.done /\ variant = "gemini1"
    /\ \E i \in 1..Len(inputQuery) : inputQuery[i] = "Q"
    /\ StartsWith(observedText, <<"Y", "o", "u">>)
    /\ Norm(observedText) = YouSaid \o <<" ">> \o Norm(inputQuery)
    /\ observedText # YouSaid \o <<" ">> \o inputQuery
    /\ extracted.answerText = <<>>

\* C18: in every variant, extractAnswer returns an empty answerText for
\* a text that is the query or 'you said ' followed by the query.
C18_EchoGuardEverywhere ==
    (extracted.done /\ IsEcho(inputQuery, observedText))
        => extracted.answerText = <<>>

\* ------------------------------------------------------------------------
\* Properties of the server
\* ------------------------------------------------------------------------

\* C10: onChunk is called for a query (a content chunk is written to its
\* response) only while the queue has started the job of that query and
\* neither the query's promise nor the job's enqueue promise has settled.
C10_ChunksOnlyWhileRunning ==
    [][\A j \in Jobs :
          (written'[j] # written[j] /\ written'[j][Len(written'[j])] = "content") =>
              /\ owner = j
              /\ \E i \in 1..Len(started) : started[i] = j
              /\ taskState[j] = "running"
              /\ result.kind = "pending"
              /\ promise[j].kind = "pending"
      ]_vars

\* A streaming job that waited in the queue has been started, has received
\* two content chunks and has been answered.
C10_Witness ==
    \E j \in Jobs :
        /\ j > 1
        /\ stream[j]
        /\ written[j] = <<"role", "content", "content", "stop", "[DONE]", "end">>

\* The finish chunk and the error chunk are both built with
\* buildStreamChunk(..., 'stop'): finish_reason is 'stop' in either.
FinishChunks == {"stop", "error"}

\* w is the beginning of: role, content*, finish, [DONE], end
StreamOrder(w) ==
    \/ w = <<>>
    \/ /\ w[1] = "role"
       /\ \E k \in 0..(Len(w) - 1) :
             /\ \A i \in 2..(k + 1) : w[i] = "content"
             /\ \/ Len(w) = k + 1
                \/ /\ Len(w) = k + 4
                   /\ w[k + 2] \in FinishChunks
                   /\ w[k + 3] = "[DONE]"
                   /\ w[k + 4] = "end"

\* C31: the writes to the response of a streaming request are, in this
\* order, one role chunk (written when the request arrives, before its job
\* is started), zero or more content chunks, exactly one chunk with
\* finish_reason 'stop', '[DONE]', then end; the response only grows, and
\* nothing is written to it after end, whether the query resolves or
\* rejects.
C31_StreamingOrder ==
    [][\A j \in Jobs : stream'[j] =>
          /\ StreamOrder(written'[j])
          /\ IsPrefix(written[j], written'[j])
          /\ Responded(j) => written'[j] = written[j]
          /\ taskState'[j] \in {"waiting", "running", "finished", "done"} =>
                written'[j] # <<>>
          /\ taskState'[j] = "waiting" => written'[j] = <<"role">>
          /\ (written'[j] # written[j] /\ Responded(j)') =>
                /\ promise[j].kind # "pending"
                /\ Len(written'[j]) = Len(written[j]) + 3
      ]_vars

\* A streaming request whose query rejected and one whose query resolved
\* after a content chunk have both been answered in full.
C31_Witness ==
    \E j, k \in Jobs :
        /\ stream[j] /\ stream[k]
        /\ promise[j].kind = "rejected" /\ promise[k].kind = "resolved"
        /\ written[j] = <<"role", "error", "[DONE]", "end">>
        /\ written[k] = <<"role", "content", "stop", "[DONE]", "end">>

\* The contents of the chunks of the response
ChunkContents ==
    {pair[2] : pair \in UNION {sent[i].delta : i \in 1..Len(sent)}}

HasTrailer(content) == SourcesHeader \in SeqSet(content)

\* C22: citations are appended as a 'Sources' trailer to the content only
\* in the non-streaming response, and there exactly when the source list
\* of the result is non-empty; nothing written to a streaming response
\* carries citations, and neither does an error response.
C22_SourcesOnlyInBatch ==
    /\ \A c \in ChunkContents : ~HasTrailer(c)
    /\ \A i \in 1..Len(sent) :
          /\ HasTrailer(sent[i].body) =>
                /\ ~wantsStream /\ sent[i].type = "json" /\ sent[i].status = 200
                /\ result.kind = "resolved" /\ result.val.sources = "cited"
          /\ (sent[i].type = "json" /\ sent[i].status = 200) =>
                /\ result.kind = "resolved"
                /\ sent[i].body = result.val.answer \o
                      (IF result.val.sources = "cited"
                       THEN <<SourcesHeader, "1. [title](url)">> ELSE <<>>)
    /\ wantsStream => \A i \in 1..Len(sent) : sent[i].type # "json"

\* A non-streaming request was answered with the answer followed by the
\* trailer of its sources.
C22_Witness ==
    /\ ~wantsStream /\ Answered(sent)
    /\ result.kind = "resolved" /\ result.val.sources = "cited"
    /\ HasTrailer(sent[1].body)

\* C23: when the query rejects in streaming mode, the error message is
\* the delta content of a chunk written before the '[DONE]' marker.
C23_ErrorDelivered ==
    (wantsStream /\ Answered(sent) /\ result.kind = "rejected") =>
        \E i, d \in 1..Len(sent) :
            /\ i < d /\ sent[d].type = "[DONE]"
            /\ sent[i].type = "data"
            /\ \E pair \in sent[i].delta :
                   pair[1] = "content" /\ result.val \in SeqSet(pair[2])

\* ------------------------------------------------------------------------
\* Properties of the browser and the pages
\* ------------------------------------------------------------------------

\* The jobs that are inside createPage or the query function
Active == {j \in Jobs : exec[j].at \notin {"-", "end"}}

\* The jobs whose createPage has got its browser from ensureBrowser
PastEnsure ==
    {j \in Jobs : \/ exec[j].at \notin {"-", "launch", "end"}
                  \/ exec[j].at = "end" /\ exec[j].b # 0}

HoldsPage == {j \in Jobs : exec[j].page # 0}

\* C21: each execution gets from createPage a page that did not exist
\* before and calls methods of that page only: no page is used by two
\* queries, no two executions hold the same page, and no method of a page
\* is called after page.close().
C21_FreshPagePerQuery ==
    /\ ~misused
    /\ \A p \in DOMAIN pages : Cardinality(pages[p].users) <= 1
    /\ \A j \in HoldsPage :
          /\ exec[j].page \in DOMAIN pages
          /\ pages[exec[j].page].users \subseteq {j}
          /\ \A k \in HoldsPage \ {j} : exec[k].page # exec[j].page
          /\ exec[j].at \in {"try", "finally"} =>
                 pages[exec[j].page].state # "closed"
    /\ \A j \in Jobs : exec[j].at \in {"try", "finally"} => j \in HoldsPage

\* The second job uses its own page after the page of the first was
\* closed.
C21_Witness ==
    /\ Len(pages) = 2
    /\ exec[1].at = "end" /\ exec[1].page = 1
    /\ pages[1] = [state |-> "closed", b |-> 1, users |-> {1}]
    /\ exec[2].at = "try" /\ exec[2].page = 2
    /\ pages[2] = [state |-> "open", b |-> 1, users |-> {2}]

OpenContexts == {j \in Jobs : exec[j].context = "open"}

OpenPages == {p \in DOMAIN pages : pages[p].state = "open"}

\* C27: at every instant at most one browser context and at most one page
\* created by createPage is open, also after createPage has failed
\* part-way.
C27_OnePageOpen ==
    /\ Cardinality(OpenContexts) <= 1
    /\ Cardinality(OpenPages) <= 1

LaunchedBy(j) == {id \in 1..Len(launchedBy) : launchedBy[id] = j}

\* C29: at most one browser runs and it is the one in `browser`; once it
\* has disconnected, browser is null and browserReady is false until the
\* next launch; a job that finds no ready browser launches one, once, and
\* creates its page in that browser, a job that finds a ready browser
\* launches none; at most one launch is in progress, none while a browser
\* runs, and only one job at a time is inside createPage or its query
\* function.
C29_RelaunchOnDemand ==
    /\ (browser # 0) = browserReady
    /\ connected = (IF browser # 0 THEN {browser} ELSE {})
    /\ \A j \in Jobs : Cardinality(LaunchedBy(j)) <= 1
    /\ \A j \in Jobs :
          j \in PastEnsure =>
              IF exec[j].sawNull
              THEN LaunchedBy(j) = {exec[j].b}
              ELSE LaunchedBy(j) = {} /\ exec[j].b # 0
    /\ \A j \in Jobs : exec[j].at \in {"context", "page", "setup", "try"} =>
                            exec[j].b # 0
    /\ Cardinality({j \in Jobs : exec[j].at = "launch"}) <= 1
    /\ (\E j \in Jobs : exec[j].at = "launch") => connected = {}
    /\ Cardinality(Active) <= 1

\* The browser disconnected during the first job; the second job launched
\* a new one and runs its query on a page of it.
C29_Witness ==
    /\ promise[1].kind = "rejected"
    /\ exec[1].b = 1 /\ ~exec[1].sawNull
    /\ exec[2].sawNull /\ exec[2].at = "try" /\ exec[2].b = 2
    /\ launchedBy = <<0, 2>>
    /\ browser = 2 /\ browserReady

\* C20: a caller that disconnects while its job is queued or running
\* changes neither the queue nor the running execution: the job stays in
\* requestQueue until it is started, jobs are started in the order of
\* their arrival, and a job never waits while no job is in flight.
C20_DisconnectIgnored ==
    [][/\ gone' # gone => UNCHANGED <<queueVars, engineVars, owner>>
       /\ \A j \in gone' :
             /\ taskState'[j] = "waiting" =>
                   \E i \in 1..Len(requestQueue') : requestQueue'[i] = j
             /\ taskState'[j] # "new"
       /\ IsPrefix(started', enqueued')
       /\ requestQueue' # <<>> => \E k \in Jobs :
                                     taskState'[k] \in {"running", "finished"}
      ]_vars

\* The caller of the first job left, the job ran to its answer, and the
\* second job, whose caller left while it was queued, is running.
C20_Witness ==
    /\ gone = {1, 2}
    /\ taskState[1] = "done" /\ promise[1].kind = "resolved"
    /\ taskState[2] = "running" /\ pc = "polling"

\* ------------------------------------------------------------------------
\* Properties of validation and routing
\* ------------------------------------------------------------------------

\* Nothing but white space
Blank(query) == \A i \in 1..Len(query) : query[i] \in WhiteSpace

\* The backend the documentation of the unified server gives to a model
\* name: lower-cased and trimmed, 'perplexity' when absent
BackendOf(name) ==
    LET given == IF name.kind = "string" /\ name.val # <<>>
                 THEN name.val ELSE DEFAULT_MODEL.val
        model == Trim(ToLowerCase(given))
    IN  CASE Includes(model, DEFAULT_MODEL.val) -> "queryPerplexity"
          [] model = Pplx -> "queryPerplexity"
          [] Includes(model, Gemini) -> "queryGemini"
          [] OTHER -> "null"

\* The requests that validation rejects
Invalid(prog, body) ==
    \/ body.messages.kind # "array"
    \/ body.messages.val = <<>>
    \/ Blank(FlattenQuery(body.messages.val))
    \/ prog = "unified" /\ BackendOf(body.model) = "null"

\* C32: a request that validation rejects (messages missing, not an array
\* or empty; a flattened query that is empty after trimming; in the
\* unified server an unsupported model) is answered with HTTP 400 and
\* changes neither requestQueue nor processing: no job is enqueued, no
\* task is invoked and no page is created.  No other request is answered
\* with 400.
C32_RejectedRequestChangesNothing ==
    [][arrival' # arrival =>
          IF Invalid(program, arrival'.body)
          THEN /\ arrival'.response.type = "json"
               /\ arrival'.response.status = 400
               /\ UNCHANGED <<requestQueue, processing>>
               /\ UNCHANGED <<queueVars, pages, exec>>
          ELSE /\ arrival'.response = NoResponse
               /\ enqueued' # enqueued
      ]_vars

\* While a job runs on its page and another waits, a request whose two
\* messages flatten to white space has been answered with 400.
C32_Witness ==
    /\ program = "unified"
    /\ arrival.response = Json(400, <<"empty_content">>)
    /\ arrival.body.messages = Arr(<<UserSays(Str(<<" ">>)), UserSays(Undefined)>>)
    /\ processing /\ Len(requestQueue) = 1
    /\ \E j \in Jobs : exec[j].at = "try" /\ Len(pages) = 1

\* C33: in the unified server, getQueryFn maps a model name, lower-cased
\* and trimmed and 'perplexity' when absent, to queryPerplexity if it
\* contains 'perplexity' or equals 'pplx', otherwise to queryGemini if it
\* contains 'gemini', otherwise to null; the task enqueued for a request
\* is the call of the backend chosen this way, it is never replaced, and
\* the job runs that backend and no other.
C33_RoutedByModelName ==
    [][program = "unified" =>
          /\ \A n \in ModelNames : GetQueryFn(n) = BackendOf(n)
          /\ \A j \in Jobs :
                /\ (taskState[j] = "new" /\ taskState'[j] # "new") =>
                      /\ task'[j] = AsyncTask(BackendOf(arrival'.body.model))
                      /\ task'[j].fn \in QueryFns
                /\ taskState[j] # "new" => task'[j] = task[j]
                /\ exec'[j].at # "-" => exec'[j].fn = task'[j].fn
      ]_vars

\* A request for 'gemini' runs queryGemini on its page while a request
\* whose model name contains both 'gemini' and 'perplexity' waits for
\* queryPerplexity.
C33_Witness ==
    /\ program = "unified"
    /\ task[1].fn = "queryGemini" /\ exec[1].fn = "queryGemini"
    /\ exec[1].at = "try"
    /\ taskState[2] = "waiting" /\ task[2].fn = "queryPerplexity"
    /\ arrival.body.model = Str(Gemini \o <<"-">> \o DEFAULT_MODEL.val)

\* ------------------------------------------------------------------------
\* Properties of the chunk accounting
\* ------------------------------------------------------------------------

Longer(a, b) == IF a > b THEN a ELSE b

\* The step is a poll: a sample was taken.
Polled == <<extraction, repeats>>' # <<extraction, repeats>>

\* C34: in a streaming execution, after every poll lastChunkedLength is
\* the total length of the deltas emitted so far and the greatest length
\* of the samples accepted so far (non-empty; for Gemini longer than 10
\* characters): it starts at 0 with no delta, a poll whose sample is
\* accepted raises it to the length of the sample if that is greater, and
\* nothing else changes it.
C34_ChunkedLengthIsMaximum ==
    [][onChunk =>
          /\ (pc = "idle" /\ pc' = "polling") =>
                lastChunkedLength' = 0 /\ deltas' = <<>>
          /\ Len(Concat(deltas')) = lastChunkedLength'
          /\ lastChunkedLength' =
                IF Polled /\ Accepts(variant, extraction'.answerText)
                THEN Longer(lastChunkedLength, Len(extraction'.answerText))
                ELSE lastChunkedLength
      ]_vars

\* At least two deltas have been emitted and the latest accepted sample is
\* shorter than an earlier one.
C34_Witness ==
    /\ onChunk /\ pc = "polling"
    /\ Len(deltas) >= 2
    /\ Len(Concat(deltas)) = lastChunkedLength
    /\ Accepts(variant, extraction.answerText)
    /\ Len(extraction.answerText) < lastChunkedLength

\* ------------------------------------------------------------------------
\* Properties of the echo guard in the loop
\* ------------------------------------------------------------------------

NoAnswerReceived == Rejected("Timeout: no answer received")

\* C35: in the first server of gemini-server.js extractAnswer returns the
\* empty text whenever the normalized text found begins with the first 120
\* characters of the normalized query, with or without 'you said' before
\* them and whatever comes after them; when every sample of an execution
\* is of that kind, no delta is emitted, nothing is returned as an answer,
\* and the execution ends with the 'Timeout: no answer received' error of
\* the loop (unless extractAnswer itself throws).
C35_EchoOnlyTimesOut ==
    /\ (extracted.done /\ EchoShaped(inputQuery, observedText)) =>
          extracted.answerText = <<>> /\ extraction.answerText = <<>>
    /\ (extracted.done /\ onlyEchoes) =>
          /\ deltas = <<>> /\ lastText = <<>>
          /\ result \in {Pending, NoAnswerReceived,
                          Rejected("page.evaluate failed")}
          /\ result = NoAnswerReceived =>
                elapsed >= GeminiLoopDeadline

\* A streaming execution for the long query saw nothing but texts that
\* begin with its first 120 characters, the latest with another
\* continuation, and ended with the timeout error.
C35_Witness ==
    /\ onChunk /\ onlyEchoes /\ extracted.done
    /\ inputQuery = LongQuery
    /\ observedText = Slice(LongQuery, QuerySliceLen) \o <<"x">>
    /\ repeats >= 2
    /\ result = NoAnswerReceived

\* ------------------------------------------------------------------------
\* Properties of the command-line client
\* ------------------------------------------------------------------------

\* C36: waitForAnswer of the command-line client does not throw when its
\* deadline passes: if no non-empty text was ever observed it returns an
\* empty answer with an empty source list, and if text was observed it
\* returns the last non-empty text observed, with an empty source list.
C36_WaitForAnswerReturnsOnTimeout ==
    /\ result # Rejected("Timeout: no answer received")
    /\ ExitedByDeadline =>
          /\ result.kind = "resolved"
          /\ result.val.sources = "none"
          /\ result.val.answer = IF observed THEN lastAccepted ELSE <<>>
          /\ observed => lastAccepted # <<>>

\* The deadline passed after polls that found no text, and an empty
\* answer was returned.
C36_Witness ==
    /\ program = "cli"
    /\ ExitedByDeadline /\ ~observed
    /\ repeats >= 2
    /\ result = Answer(<<>>, "none")

\* ------------------------------------------------------------------------
\* Properties of submitQuery
\* ------------------------------------------------------------------------

BehaviourAt(c) == submission.dom[c.sel].found[c.el]

\* c comes before d in the order of the selector list and of the elements
\* of a selector
Before(c, d) == c.sel < d.sel \/ (c.sel = d.sel /\ c.el < d.el)

\* The candidates of selector i that the loop reaches: those with nothing
\* but hidden elements before them
Reached(i) ==
    {k \in 1..Len(submission.dom[i].found) :
        \A m \in 1..(k - 1) : submission.dom[i].found[m] = "hidden"}

\* C37: submitQuery examines the candidates in the order of the selector
\* list; it triggers the submission on the first visible candidate whose
\* interaction completes without an exception and returns true at once, so
\* at most one submission is triggered in a call; it returns false only
\* when every selector has been tried; an exception while a candidate is
\* handled is caught and the loop goes on with the next selector: no
\* exception leaves the loop.
C37_FirstUsableCandidateWins ==
    LET s == submission
        n == Len(s.examined)
    IN  /\ s.ret \in {"pending", "true", "false"}
        /\ Len(s.submits) <= 1
        /\ (s.ret = "true") = (Len(s.submits) = 1)
        /\ \A i, j \in 1..n : i < j =>
              /\ Before(s.examined[i], s.examined[j])
              /\ BehaviourAt(s.examined[i]) # "ok"
              /\ BehaviourAt(s.examined[i]) = "throws" =>
                    s.examined[i].sel < s.examined[j].sel
        /\ s.ret = "true" =>
              /\ s.submits[1] = s.examined[n]
              /\ BehaviourAt(s.submits[1]) = "ok"
        /\ s.ret = "false" =>
              /\ s.sel > MaxSelectors
              /\ \A i \in 1..MaxSelectors : \A k \in Reached(i) :
                    /\ At(i, k) \in SeqSet(s.examined)
                    /\ s.dom[i].found[k] # "ok"

\* The first selector matched a hidden element and one whose handling
\* threw; the submission was triggered on the first element of the second
\* selector, which matched another usable element after it.
C37_Witness ==
    /\ submission.ret = "true"
    /\ submission.dom[1].found = <<"hidden", "throws">>
    /\ submission.dom[2].found = <<"ok", "ok">>
    /\ submission.examined = <<At(1, 1), At(1, 2), At(2, 1)>>
    /\ submission.submits = <<At(2, 1)>>

\* ------------------------------------------------------------------------
\* Properties of the busy signal
\* ------------------------------------------------------------------------

\* The step is a poll whose text is the text of the poll before it.
PolledSameText ==
    /\ Polled
    /\ extraction.taken
    /\ extraction'.answerText = extraction.answerText

\* C38: at a poll whose extracted text equals the text of the poll right
\* before it, the length stored on the page equals the length of the text
\* and isGrowing is false, so isLoading is what the loading indicators of
\* the page say, and the loop returns at that poll exactly when the
\* stability rule holds with the indicators in the place of isLoading.
C38_RepeatedTextIsNotGrowing ==
    [][PolledSameText =>
          LET text == extraction'.answerText IN
          /\ prevLen = Len(text)
          /\ ~IsGrowing(text, prevLen)
          /\ extraction'.isLoading = extraction'.spinner
          /\ Accepts(variant, text) =>
                /\ lastText = text
                /\ (pc' = ExitLoop) =
                      IsDone(variant, extraction'.spinner,
                             extraction'.modelResponseExists, stableCount')
      ]_vars

\* queryPerplexity returned under the early-stable rule: the third poll in
\* a row with the same text, no loading indicator on the page.
C38_Witness ==
    /\ variant = "perplexity"
    /\ pc = ExitLoop
    /\ extraction.taken /\ repeats >= 3
    /\ extraction.answerText # <<>>
    /\ prevLen = Len(extraction.answerText)
    /\ ~extraction.spinner /\ ~extraction.isLoading
    /\ stableCount = 3
    /\ result = Answer(extraction.answerText, result.val.sources)

====
